---- MODULE Spec2Model ----
(***************************************************************************)
(* A model of the SSNIT contribution-report automation (content.js,        *)
(* popup.js and the background service worker).                            *)
(*                                                                         *)
(* The persisted document (chrome.storage.local) is the variable store.    *)
(* Every tab that runs the content script has its own script variables     *)
(* (mem), its own page (page) and its own pending asynchronous             *)
(* continuations: timer callbacks of the phase loops (scr, cap) and        *)
(* dashboard click handlers (uop).  A handler is cut at its awaits: what   *)
(* runs between two awaits is one action, and the values a continuation    *)
(* has read from the store travel with it, as they do in the closures of   *)
(* the script.                                                             *)
(***************************************************************************)
EXTENDS Integers, Sequences, FiniteSets, TLC

VARIABLES store, mem, page, scr, cap, uop, now, hist

vars == <<store, mem, page, scr, cap, uop, now, hist>>

(***************************************************************************)
(* Bounds of the model.                                                    *)
(***************************************************************************)
NumTabs == 2
NumERs == 2
MaxBatch == 3
MaxRuns == 1
MaxInFlight == 2
MaxUserOps == 1
MaxStarts == 1
MaxClicks == 2

Tabs == 1..NumTabs
ERs == 1..NumERs
Slots == 1..MaxInFlight

\* null: no employer number (currentER), no tab (automationTabId)
Null == 0
\* a token of the popup's text area that is not a 9-digit number
BadToken == NumERs + 1
Tokens == ERs \cup {BadToken}

(***************************************************************************)
(* Sequence helpers (Array.prototype methods the script uses).             *)
(***************************************************************************)
Range(s) == {s[k] : k \in DOMAIN s}

\* s.slice(1)
Slice1(s) == IF s = <<>> THEN <<>> ELSE Tail(s)

\* the number of times x occurs in s
Count(s, x) == Cardinality({k \in DOMAIN s : s[k] = x})

\* all sequences over S of length at most n
RECURSIVE SeqsUpTo(_, _)
SeqsUpTo(S, n) ==
    IF n = 0 THEN {<<>>}
    ELSE LET shorter == SeqsUpTo(S, n - 1)
         IN  shorter \cup {Append(s, x) : s \in {r \in shorter : Len(r) = n - 1}, x \in S}

(***************************************************************************)
(* popup.js: parsing of the batch.                                         *)
(***************************************************************************)
\* /^\d{9}$/.test(item)
IsNineDigits(tok) == tok \in ERs

\* validErs: the 9-digit tokens in input order, each kept once
RECURSIVE validErs(_)
validErs(lines) ==
    IF lines = <<>> THEN <<>>
    ELSE LET front == validErs(SubSeq(lines, 1, Len(lines) - 1))
             item == lines[Len(lines)]
         IN  IF IsNineDigits(item) /\ item \notin Range(front)
             THEN Append(front, item)
             ELSE front

invalidErs(lines) == SelectSeq(lines, LAMBDA item : ~IsNineDigits(item))

(***************************************************************************)
(* The results table of the report page and the record extracted from it.  *)
(***************************************************************************)
Row(period, type, lf, amt, globe) ==
    [period |-> period, type |-> type, lf |-> lf, amt |-> amt, globe |-> globe]

\* the row sets the remote report can answer a search with
RowSets ==
    { <<Row("P1", "NORMAL", 1, 1, FALSE)>>,
      <<Row("P2", "NORMAL", 1, 1, FALSE)>> }

NoTable == [er |-> Null, rows |-> <<>>]

P1Record(row) == [period |-> row.period, type |-> row.type, lf |-> row.lf, amt |-> row.amt]

\* r => records.find(r => r.type === 'NORMAL'): the index of the first one, 0 if none
FindNormal(records) ==
    IF \E k \in DOMAIN records : records[k].type = "NORMAL"
    THEN CHOOSE k \in DOMAIN records :
            /\ records[k].type = "NORMAL"
            /\ \A j \in 1..(k - 1) : records[j].type # "NORMAL"
    ELSE 0

\* the record, were continuityError raised for a table without rows only
ExtractRecordNoRows(er, rows) ==
    LET p1rows == SelectSeq(rows, LAMBDA r : r.period = "P1")
        p1 == [k \in DOMAIN p1rows |-> P1Record(p1rows[k])]
        n == FindNormal(p1)
    IN  [er |-> er,
         p1Records |-> p1,
         alreadyCaptured |-> \E k \in DOMAIN rows : rows[k].period = "TARGET",
         continuityError |-> Len(rows) = 0,
         isSelfCapture |-> \E k \in DOMAIN rows : rows[k].globe,
         zeroCrError |-> n # 0 /\ (p1[n].lf = 0 \/ p1[n].amt = 0)]

\* the record extractDataFromTable builds from the visible rows
ExtractRecord(er, rows) ==
    LET p1rows == SelectSeq(rows, LAMBDA r : r.period = "P1")
        p1 == [k \in DOMAIN p1rows |-> P1Record(p1rows[k])]
        n == FindNormal(p1)
    IN  [er |-> er,
         p1Records |-> p1,
         alreadyCaptured |-> \E k \in DOMAIN rows : rows[k].period = "TARGET",
         continuityError |-> Len(p1) = 0,
         isSelfCapture |-> \E k \in DOMAIN rows : rows[k].globe,
         zeroCrError |-> n # 0 /\ (p1[n].lf = 0 \/ p1[n].amt = 0)]

\* existingResults.some(r => r.er === er)
HasER(results, er) == \E k \in DOMAIN results : results[k].er = er

ErsOf(results) == {results[k].er : k \in DOMAIN results}

\* captureResults: the outcome recorded for each employer number, {} at first
NoResults == [e \in ERs |-> [result |-> "none", message |-> "none"]]

(***************************************************************************)
(* The state after installation: an empty store, every tab showing a page  *)
(* on which the content script found phase IDLE and scheduled nothing.     *)
(***************************************************************************)
\* chrome.storage.local, with the defaults the script reads missing keys as
InitStore ==
    [phase |-> "IDLE", automationTabId |-> Null,
     isPaused |-> FALSE, interventionRequired |-> FALSE, loginPending |-> FALSE,
     erQueue |-> <<>>, currentER |-> Null, scrapedResults |-> <<>>,
     captureQueue |-> <<>>, currentCaptureIndex |-> 0,
     capturedErs |-> <<>>, failedErs |-> <<>>, retryCount |-> 0,
     awaitingResponse |-> FALSE, lastSubmitTime |-> 0,
     captureResults |-> NoResults,
     validationQueue |-> <<>>, currentValidationIndex |-> 0,
     validationState |-> "none", validationSubmitTime |-> 0,
     validatedErs |-> <<>>, validationFailedErs |-> <<>>,
     validationResults |-> NoResults,
     needsWageEdit |-> <<>>, wageEditQueue |-> <<>>, currentWageEditIndex |-> 0]

\* the script's module-level variables of one document
InitMem ==
    [isPaused |-> FALSE, scrapingStarted |-> FALSE,
     extractionInProgress |-> FALSE, captureInProgress |-> FALSE,
     wageEditInProgress |-> FALSE, validationInProgress |-> FALSE,
     scrapingInterval |-> FALSE, captureInterval |-> FALSE,
     validationInterval |-> FALSE, wageEditInterval |-> FALSE,
     stuckCounter |-> 0, dashboard |-> FALSE, loaded |-> TRUE]

\* what the script can observe of the remote page
InitPage ==
    [url |-> "other", table |-> NoTable, searching |-> Null, dialog |-> "none",
     formEr |-> Null, submitted |-> FALSE, employees |-> <<>>]

\* a pending continuation of the scraping interval callback
IdleSlot ==
    [pc |-> "idle", cur |-> Null, res |-> <<>>, q |-> <<>>, hold |-> FALSE,
     own |-> FALSE]

\* the arguments of a call of advanceToNextER and the update it has built
NoAdv ==
    [er |-> Null, result |-> "none", message |-> "none",
     captured |-> <<>>, failed |-> <<>>, index |-> 0,
     results |-> NoResults, complete |-> FALSE, last |-> FALSE]

\* what doCaptureStep keeps of the document it read
NoData == [index |-> 0, er |-> Null, captured |-> <<>>, failed |-> <<>>, retries |-> 0]

\* a pending continuation of the capture (or wage edit) interval callback
IdleCap ==
    [pc |-> "idle", data |-> NoData, adv |-> NoAdv, k |-> 0,
     why |-> "none", submitTime |-> 0, own |-> FALSE, late |-> FALSE,
     blind |-> FALSE, wq |-> <<>>, vq |-> <<>>, modal |-> "none"]

\* a pending continuation of a dashboard click handler
IdleOp == [pc |-> "idle", op |-> "none", res |-> <<>>, adv |-> NoAdv]

InitHist ==
    [runs |-> [t \in Tabs |-> 0], batch |-> {}, deleted |-> FALSE, manual |-> {},
     scrapeDone |-> FALSE, userOps |-> 0,
     starts |-> [t \in Tabs |-> 0], clicks |-> 0, timeouts |-> 0, halted |-> FALSE,
     stopped |-> FALSE, acted |-> FALSE, blind |-> FALSE,
     submits |-> [e \in ERs |-> 0]]

Init ==
    /\ store = InitStore
    /\ mem = [t \in Tabs |-> InitMem]
    /\ page = [t \in Tabs |-> InitPage]
    /\ scr = [t \in Tabs |-> [i \in Slots |-> IdleSlot]]
    /\ cap = [t \in Tabs |-> IdleCap]
    /\ uop = [t \in Tabs |-> IdleOp]
    /\ now = 1
    /\ hist = InitHist

\* the document of tab t is replaced: its timers, closures and variables die
Unload(t) ==
    /\ mem' = [mem EXCEPT ![t] = [InitMem EXCEPT !.loaded = FALSE]]
    /\ scr' = [scr EXCEPT ![t] = [i \in Slots |-> IdleSlot]]
    /\ cap' = [cap EXCEPT ![t] = IdleCap]
    /\ uop' = [uop EXCEPT ![t] = IdleOp]

(***************************************************************************)
(* popup.js: the Go button.                                                *)
(***************************************************************************)
\* the click handler, for the text `lines` and the answer to its confirm()
PopupGo(t, lines, proceed) ==
    /\ hist.runs[t] < MaxRuns
    /\ \A u \in Tabs : uop[u].pc = "idle"
    /\ Len(invalidErs(lines)) > 0 => proceed
    /\ Len(validErs(lines)) > 0
    /\ store' = [store EXCEPT
                    !.phase = "SCRAPING",
                    !.erQueue = validErs(lines),
                    !.currentER = validErs(lines)[1],
                    !.scrapedResults = <<>>,
                    !.captureQueue = <<>>,
                    !.currentCaptureIndex = 0,
                    !.capturedErs = <<>>,
                    !.failedErs = <<>>,
                    !.retryCount = 0,
                    !.automationTabId = t]
    /\ Unload(t)
    /\ page' = [page EXCEPT ![t] = [InitPage EXCEPT !.url = "report"]]
    /\ hist' = [hist EXCEPT !.runs[t] = @ + 1, !.batch = Range(validErs(lines)),
                            !.deleted = FALSE, !.manual = {}, !.scrapeDone = FALSE,
                            !.stopped = FALSE]
    /\ UNCHANGED now

(***************************************************************************)
(* background worker: isAutomationTab.                                     *)
(***************************************************************************)
isAutomationTab(t) == store.automationTabId # Null /\ store.automationTabId = t

isLoginPage(t) == page[t].url = "login"

(***************************************************************************)
(* content.js: runAutomation, run once per document.                       *)
(***************************************************************************)
\* the page on which a phase is driven
PhaseUrl(phase) ==
    CASE phase = "SCRAPING" -> "report"
      [] phase = "CAPTURE" -> "employer"
      [] OTHER -> "unprocessed"

\* the phases runAutomation navigates back to after a login
ResumesAfterLogin ==
    \/ store.phase = "SCRAPING" /\ store.currentER # Null
    \/ store.phase \in {"CAPTURE", "VALIDATION", "WAGE_EDIT"}

runAutomation(t) ==
    /\ ~mem[t].loaded
    /\ IF (store.phase # "IDLE" /\ ~isAutomationTab(t)) \/ isLoginPage(t)
       THEN \* another tab runs the automation, or this is the login page
            /\ mem' = [mem EXCEPT ![t].loaded = TRUE, ![t].isPaused = store.isPaused]
            /\ UNCHANGED <<store, page>>
       ELSE IF store.loginPending /\ ResumesAfterLogin
       THEN \* past the login: clear the flag and navigate to the phase's page
            /\ store' = [store EXCEPT !.loginPending = FALSE]
            /\ page' = [page EXCEPT ![t] = [InitPage EXCEPT !.url = PhaseUrl(store.phase)]]
            /\ UNCHANGED mem
       ELSE /\ store' = [store EXCEPT !.loginPending = FALSE]
            /\ mem' = [mem EXCEPT
                  ![t].loaded = TRUE,
                  ![t].isPaused = store.isPaused,
                  ![t].dashboard = (store.phase # "IDLE"),
                  ![t].scrapingStarted =
                      (store.phase = "SCRAPING" /\ store.currentER # Null /\ ~store.isPaused),
                  ![t].scrapingInterval =
                      (store.phase = "SCRAPING" /\ store.currentER # Null /\ ~store.isPaused),
                  ![t].captureInterval = (store.phase = "CAPTURE" /\ ~store.isPaused),
                  ![t].validationInterval = (store.phase = "VALIDATION" /\ ~store.isPaused),
                  ![t].wageEditInterval = (store.phase = "WAGE_EDIT" /\ ~store.isPaused)]
            /\ UNCHANGED page
    /\ UNCHANGED <<scr, cap, uop, now, hist>>

(***************************************************************************)
(* content.js: the scraping loop.  Slot i of tab t is one invocation of    *)
(* the interval callback of runScrapingLoop.                               *)
(***************************************************************************)
SetSlot(t, i, slot) == scr' = [scr EXCEPT ![t][i] = slot]

\* the invocations of tab t that are past the callback's guard
Running(t) == {i \in Slots : scr[t][i].pc # "idle"}

\* the callback fires: `if (extractionInProgress) return`, then it awaits the
\* read of isPaused
runScrapingLoopGuard(t) == ~mem[t].extractionInProgress

runScrapingLoop(t, i) ==
    /\ mem[t].loaded /\ mem[t].scrapingInterval
    /\ scr[t][i].pc = "idle"
    /\ \A j \in Slots : j < i => scr[t][j].pc # "idle"
    /\ runScrapingLoopGuard(t)
    /\ SetSlot(t, i, [IdleSlot EXCEPT !.pc = "tick_pause", !.own = isAutomationTab(t)])
    /\ UNCHANGED <<store, mem, page, cap, uop, now, hist>>

\* the read of isPaused resolves: pause and login checks
runScrapingLoopChecks(t, i) ==
    /\ scr[t][i].pc = "tick_pause"
    /\ IF store.isPaused
       THEN /\ mem' = [mem EXCEPT ![t].isPaused = TRUE]
            /\ SetSlot(t, i, IdleSlot)
            /\ UNCHANGED store
       ELSE IF isLoginPage(t)
       THEN /\ mem' = [mem EXCEPT ![t].isPaused = FALSE]
            /\ store' = [store EXCEPT !.loginPending = TRUE]
            /\ SetSlot(t, i, IdleSlot)
       ELSE /\ mem' = [mem EXCEPT ![t].isPaused = FALSE]
            /\ SetSlot(t, i, [scr[t][i] EXCEPT !.pc = "step_get"])
            /\ UNCHANGED store
    /\ UNCHANGED <<page, cap, uop, now, hist>>

\* doScrapingStep, from the resolution of its safeGet to its next await;
\* fieldReady: the ER input is on the page and visible
doScrapingStep(t, i, fieldReady) ==
    /\ scr[t][i].pc = "step_get"
    /\ LET currentER == store.currentER
           scraped == store.scrapedResults
       IN  IF currentER = Null \/ store.erQueue = <<>>
           THEN \* scraping complete: clearInterval, then safeSet({phase: 'IDLE'})
                /\ mem' = [mem EXCEPT ![t].scrapingInterval = FALSE]
                /\ SetSlot(t, i, [scr[t][i] EXCEPT !.pc = "done_set"])
           ELSE IF HasER(scraped, currentER)
           THEN \* already scraped: proceedToNextScrape
                /\ SetSlot(t, i, [scr[t][i] EXCEPT !.pc = "p_get"])
                /\ UNCHANGED mem
           ELSE IF ~fieldReady
           THEN /\ SetSlot(t, i, IdleSlot)
                /\ UNCHANGED mem
           ELSE IF page[t].table.er # currentER
           THEN \* clearAndSearchER sets the flag and awaits
                /\ mem' = [mem EXCEPT ![t].extractionInProgress = TRUE]
                /\ SetSlot(t, i, [scr[t][i] EXCEPT !.pc = "search", !.cur = currentER])
           ELSE IF mem[t].extractionInProgress
           THEN \* extractDataFromTable returns at once
                /\ SetSlot(t, i, IdleSlot)
                /\ UNCHANGED mem
           ELSE \* extractDataFromTable sets the flag and awaits its safeGet
                /\ mem' = [mem EXCEPT ![t].extractionInProgress = TRUE]
                /\ SetSlot(t, i, [scr[t][i] EXCEPT !.pc = "x_get", !.hold = TRUE])
    /\ UNCHANGED <<store, page, cap, uop, now, hist>>

\* the safeSet of phase IDLE that ends the scraping phase
doScrapingStepComplete(t, i) ==
    /\ scr[t][i].pc = "done_set"
    /\ store' = [store EXCEPT !.phase = "IDLE"]
    /\ SetSlot(t, i, IdleSlot)
    /\ hist' = [hist EXCEPT !.scrapeDone = TRUE]
    /\ UNCHANGED <<mem, page, cap, uop, now>>

\* clearAndSearchER: the ER is typed and SEARCH clicked; hasButton: the button exists
clearAndSearchER(t, i, hasButton) ==
    /\ scr[t][i].pc = "search"
    /\ page' = [page EXCEPT ![t].searching =
                    IF hasButton THEN scr[t][i].cur ELSE page[t].searching]
    /\ SetSlot(t, i, [scr[t][i] EXCEPT !.pc = "search_wait"])
    /\ UNCHANGED <<store, mem, cap, uop, now, hist>>

\* clearAndSearchER: the wait after the click is over; finally { flag = false }
clearAndSearchERFinally(t, i) ==
    /\ scr[t][i].pc = "search_wait"
    /\ mem' = [mem EXCEPT ![t].extractionInProgress = FALSE]
    /\ SetSlot(t, i, IdleSlot)
    /\ UNCHANGED <<store, page, cap, uop, now, hist>>

\* the remote report answers the search: rows for the number searched, or none
SearchResults(t, rows) ==
    /\ page[t].searching # Null
    /\ page' = [page EXCEPT
                    ![t].table = IF rows = <<>> THEN NoTable
                                 ELSE [er |-> page[t].searching, rows |-> rows],
                    ![t].searching = Null]
    /\ UNCHANGED <<store, mem, scr, cap, uop, now, hist>>

\* extractDataFromTable, from the resolution of its safeGet to its next await
extractDataFromTable(t, i) ==
    /\ scr[t][i].pc = "x_get"
    /\ LET currentER == store.currentER
           existingResults == store.scrapedResults
           table == page[t].table
       IN  IF currentER = Null
           THEN /\ mem' = [mem EXCEPT ![t].extractionInProgress = FALSE]
                /\ SetSlot(t, i, IdleSlot)
           ELSE IF HasER(existingResults, currentER)
           THEN /\ SetSlot(t, i, [scr[t][i] EXCEPT !.pc = "p_get"])
                /\ UNCHANGED mem
           ELSE IF table.er # Null /\ table.er # currentER
           THEN \* table ER mismatch: return, the next tick retries
                /\ mem' = [mem EXCEPT ![t].extractionInProgress = FALSE]
                /\ SetSlot(t, i, IdleSlot)
           ELSE /\ SetSlot(t, i, [scr[t][i] EXCEPT
                        !.pc = "x_set",
                        !.res = Append(existingResults,
                                       ExtractRecord(currentER, table.rows))])
                /\ UNCHANGED mem
    /\ UNCHANGED <<store, page, cap, uop, now, hist>>

\* extractDataFromTable: safeSet({scrapedResults: newResults})
extractDataFromTableSave(t, i) ==
    /\ scr[t][i].pc = "x_set"
    /\ store' = [store EXCEPT !.scrapedResults = scr[t][i].res]
    /\ SetSlot(t, i, [scr[t][i] EXCEPT !.pc = "p_get"])
    /\ UNCHANGED <<mem, page, cap, uop, now, hist>>

\* proceedToNextScrape: its safeGet resolves
proceedToNextScrape(t, i) ==
    /\ scr[t][i].pc = "p_get"
    /\ SetSlot(t, i, [scr[t][i] EXCEPT !.pc = "p_set", !.q = Slice1(store.erQueue)])
    /\ UNCHANGED <<store, mem, page, cap, uop, now, hist>>

\* proceedToNextScrape: safeSet of the next queue, the table is cleared; the
\* caller's finally releases the flag
proceedToNextScrapeSave(t, i) ==
    /\ scr[t][i].pc = "p_set"
    /\ LET nextQueue == scr[t][i].q
       IN  store' = [store EXCEPT
                       !.erQueue = nextQueue,
                       !.currentER = IF nextQueue = <<>> THEN Null ELSE nextQueue[1]]
    /\ page' = [page EXCEPT ![t].table = NoTable]
    /\ mem' = [mem EXCEPT ![t].extractionInProgress =
                   IF scr[t][i].hold THEN FALSE ELSE @]
    /\ SetSlot(t, i, IdleSlot)
    /\ UNCHANGED <<cap, uop, now, hist>>

(***************************************************************************)
(* content.js: the dashboard's record editing (user-initiated).            *)
(***************************************************************************)
\* the two values a number input of the dashboard is given
Amounts == 0..1

\* no click handler is still running in any tab
UserIdle == \A u \in Tabs : uop[u].pc = "idle"

UserMayClick(t) ==
    /\ mem[t].loaded /\ mem[t].dashboard
    /\ UserIdle
    /\ hist.userOps < MaxUserOps

\* the record addManualER builds
ManualRecord(er, lf, amt) ==
    [er |-> er,
     p1Records |-> <<[period |-> "MANUAL", type |-> "NORMAL", lf |-> lf, amt |-> amt]>>,
     alreadyCaptured |-> FALSE, continuityError |-> FALSE,
     isSelfCapture |-> FALSE, zeroCrError |-> FALSE]

\* a manual add that skips the duplicate check
ManualExistsUnchecked(existingResults, er) == FALSE

\* addManualER's duplicate check
ManualExists(existingResults, er) == HasER(existingResults, er)

\* addManualER up to its safeSet: input validation, read, duplicate check
addManualER(t, er, lf, amt) ==
    /\ UserMayClick(t)
    /\ IsNineDigits(er) /\ lf > 0 /\ amt > 0
    /\ ~ManualExists(store.scrapedResults, er)
    /\ uop' = [uop EXCEPT ![t] =
                  [IdleOp EXCEPT !.pc = "set", !.op = "add",
                       !.res = Append(store.scrapedResults, ManualRecord(er, lf, amt))]]
    /\ hist' = [hist EXCEPT !.userOps = @ + 1, !.manual = @ \cup {er}]
    /\ UNCHANGED <<store, mem, page, scr, cap, now>>

\* results.findIndex(r => r.er === er), 0 if there is none
FindIndex(results, er) ==
    IF HasER(results, er)
    THEN CHOOSE k \in DOMAIN results :
            results[k].er = er /\ \A j \in 1..(k - 1) : results[j].er # er
    ELSE 0

\* the p1 records of a record saved with newLf and newAmt
EditedP1(p1Records, newLf, newAmt) ==
    LET n == FindNormal(p1Records)
        updated == IF n # 0
                   THEN [p1Records EXCEPT ![n].lf = newLf, ![n].amt = newAmt]
                   ELSE Append(p1Records, [period |-> "EDITED", type |-> "NORMAL",
                                           lf |-> newLf, amt |-> newAmt])
        m == FindNormal(updated)
    IN  IF m # 0 /\ updated[m].period # "MANUAL"
        THEN [updated EXCEPT ![m].period = "EDITED"]
        ELSE updated

\* the record saveScrapedRecord writes back
EditedRecord(rec, newLf, newAmt) ==
    [rec EXCEPT
        !.p1Records = EditedP1(rec.p1Records, newLf, newAmt),
        !.zeroCrError = IF newLf > 0 /\ newAmt > 0 THEN FALSE ELSE @,
        !.continuityError = IF newLf > 0 /\ newAmt > 0 THEN FALSE ELSE @]

\* saveScrapedRecord up to its safeSet
saveScrapedRecord(t, er, newLf, newAmt) ==
    /\ UserMayClick(t)
    /\ newLf > 0 /\ newAmt > 0
    /\ FindIndex(store.scrapedResults, er) # 0
    /\ LET results == store.scrapedResults
           k == FindIndex(results, er)
       IN  uop' = [uop EXCEPT ![t] =
                     [IdleOp EXCEPT !.pc = "set", !.op = "edit",
                          !.res = [results EXCEPT ![k] = EditedRecord(results[k], newLf, newAmt)]]]
    /\ hist' = [hist EXCEPT !.userOps = @ + 1]
    /\ UNCHANGED <<store, mem, page, scr, cap, now>>

\* deleteScrapedRecord up to its safeSet (the confirm() answered yes)
deleteScrapedRecord(t, er) ==
    /\ UserMayClick(t)
    /\ HasER(store.scrapedResults, er)
    /\ uop' = [uop EXCEPT ![t] =
                  [IdleOp EXCEPT !.pc = "set", !.op = "delete",
                       !.res = SelectSeq(store.scrapedResults, LAMBDA r : r.er # er)]]
    /\ hist' = [hist EXCEPT !.userOps = @ + 1, !.deleted = TRUE]
    /\ UNCHANGED <<store, mem, page, scr, cap, now>>

\* the safeSet({scrapedResults}) that ends the three handlers
saveScrapedResults(t) ==
    /\ uop[t].pc = "set"
    /\ uop[t].op \in {"add", "edit", "delete"}
    /\ store' = [store EXCEPT !.scrapedResults = uop[t].res]
    /\ uop' = [uop EXCEPT ![t] = IdleOp]
    /\ UNCHANGED <<mem, page, scr, cap, now, hist>>

(***************************************************************************)
(* content.js: the capture phase.                                          *)
(***************************************************************************)
RESPONSE_TIMEOUT_MS == 12000

MAX_STUCK_COUNT == 5

\* the pause checks of the form fill, the last one before the submit
FormChecks == 8

\* the filter of startCapturePhase and of the in-loop queue population; a
\* filter that lets self-capturing employers through is the variant used to
\* test the claims
CaptureEligibleWithSelf(res) ==
    /\ ~res.alreadyCaptured /\ ~res.continuityError
    /\ ~res.zeroCrError

CaptureEligible(res) ==
    /\ ~res.alreadyCaptured /\ ~res.continuityError
    /\ ~res.zeroCrError /\ ~res.isSelfCapture

\* the queue item built from a scraped record: lf and amt of its first NORMAL
\* p1 record, 0 where there is none
QueueItem(res) ==
    LET n == FindNormal(res.p1Records)
    IN  [er |-> res.er,
         lf |-> IF n = 0 THEN 0 ELSE res.p1Records[n].lf,
         amt |-> IF n = 0 THEN 0 ELSE res.p1Records[n].amt]

\* a queue with one item for every record, whatever its flags and values
BuildCaptureQueueUnfiltered(scraped) ==
    [k \in DOMAIN scraped |-> QueueItem(scraped[k])]

BuildCaptureQueue(scraped) ==
    LET valid == SelectSeq(scraped, CaptureEligible)
        items == [k \in DOMAIN valid |-> QueueItem(valid[k])]
    IN  SelectSeq(items, LAMBDA item : item.lf > 0 /\ item.amt > 0)

\* registerThisTabAsAutomationTab: the background worker stores the sender's id
registerThisTabAsAutomationTab(t) == [store EXCEPT !.automationTabId = t]

UserMayStart(t) ==
    /\ mem[t].loaded /\ mem[t].dashboard
    /\ \A u \in Tabs : uop[u].pc = "idle"
    /\ hist.starts[t] < MaxStarts

\* the start-capture button: the tab registers itself
startCapturePhase(t) ==
    /\ UserMayStart(t)
    /\ store' = registerThisTabAsAutomationTab(t)
    /\ uop' = [uop EXCEPT ![t] = [IdleOp EXCEPT !.pc = "start", !.op = "capture"]]
    /\ hist' = [hist EXCEPT !.starts[t] = @ + 1, !.halted = FALSE, !.stopped = FALSE]
    /\ UNCHANGED <<mem, page, scr, cap, now>>

\* startCapturePhase: the queue is built and written, the tab navigates
startCapturePhaseSave(t) ==
    /\ uop[t].pc = "start" /\ uop[t].op = "capture"
    /\ LET queue == BuildCaptureQueue(store.scrapedResults)
       IN  IF queue = <<>>
           THEN \* alert: nothing to capture
                /\ uop' = [uop EXCEPT ![t] = IdleOp]
                /\ UNCHANGED <<store, mem, page, scr, cap>>
           ELSE /\ store' = [store EXCEPT
                                !.phase = "CAPTURE",
                                !.captureQueue = queue,
                                !.currentCaptureIndex = 0,
                                !.capturedErs = <<>>,
                                !.failedErs = <<>>,
                                !.retryCount = 0,
                                !.isPaused = FALSE]
                /\ Unload(t)
                /\ page' = [page EXCEPT ![t] = [InitPage EXCEPT !.url = "employer"]]
    /\ hist' = [hist EXCEPT !.timeouts = 0]
    /\ UNCHANGED now

\* detectModalState: the type of the visible dialog and whether its text says
\* the report already exists
detectModalState(t) ==
    LET d == page[t].dialog
    IN  [type |-> CASE d = "none" -> "none"
                    [] d = "receipt" -> "receipt"
                    [] d = "success" -> "success"
                    [] d \in {"error_dup", "error_other"} -> "error"
                    [] OTHER -> "unknown",
         message |-> d]

\* the outcome doCaptureStep passes to advanceToNextER for a closed dialog;
\* the variant that never recognises a duplicate is used to test the claims
ModalResultNoDuplicate(modalState) ==
    CASE modalState.type \in {"receipt", "success"} -> "success"
      [] OTHER -> "error"

ModalResult(modalState) ==
    CASE modalState.type \in {"receipt", "success"} -> "success"
      [] modalState.message = "error_dup" -> "already_captured"
      [] OTHER -> "error"

\* the message doCaptureStep passes to advanceToNextER for a closed dialog
ModalMessage(modalState) ==
    CASE modalState.type = "receipt" -> "Acknowledgement received"
      [] modalState.type = "success" -> "Data saved successfully"
      [] OTHER -> modalState.message

\* the state update advanceToNextER builds from its arguments and from the
\* captureResults and captureQueue it has read; an update that moves the
\* index two places is the variant used to test the claims
AdvanceUpdateSkipsOne(args, results, queue) ==
    [args EXCEPT
        !.captured = IF args.result \in {"success", "already_captured"}
                     THEN Append(@, args.er) ELSE @,
        !.failed = IF args.result \in {"success", "already_captured"}
                   THEN @ ELSE Append(@, args.er),
        !.index = @ + 2,
        !.results = [results EXCEPT ![args.er] =
                        [result |-> args.result, message |-> args.message]],
        !.complete = (args.index + 2 >= Len(queue)) /\ Len(queue) > 0,
        !.last = args.index + 2 >= Len(queue)]

AdvanceUpdate(args, results, queue) ==
    [args EXCEPT
        !.captured = IF args.result \in {"success", "already_captured"}
                     THEN Append(@, args.er) ELSE @,
        !.failed = IF args.result \in {"success", "already_captured"}
                   THEN @ ELSE Append(@, args.er),
        !.index = @ + 1,
        !.results = [results EXCEPT ![args.er] =
                        [result |-> args.result, message |-> args.message]],
        !.complete = (args.index + 1 >= Len(queue)) /\ Len(queue) > 0,
        !.last = args.index + 1 >= Len(queue)]

\* safeSet(stateUpdate) of advanceToNextER; an update that leaves the retry
\* count alone is the variant used to test the claims
ApplyAdvanceKeepsRetry(s, upd) ==
    [s EXCEPT
        !.capturedErs = upd.captured,
        !.failedErs = upd.failed,
        !.currentCaptureIndex = upd.index,
        !.captureResults = upd.results,
        !.awaitingResponse = FALSE,
        !.interventionRequired = FALSE,
        !.phase = IF upd.complete THEN "COMPLETE" ELSE @]

ApplyAdvance(s, upd) ==
    [s EXCEPT
        !.capturedErs = upd.captured,
        !.failedErs = upd.failed,
        !.currentCaptureIndex = upd.index,
        !.retryCount = 0,
        !.captureResults = upd.results,
        !.awaitingResponse = FALSE,
        !.interventionRequired = FALSE,
        !.phase = IF upd.complete THEN "COMPLETE" ELSE @]

\* arguments whose captured list already holds the employer
AdvArgsAlreadyListed(data, result, message) ==
    [NoAdv EXCEPT !.er = data.er, !.result = result, !.message = message,
                  !.captured = Append(data.captured, data.er),
                  !.failed = data.failed,
                  !.index = data.index]

AdvArgs(data, result, message) ==
    [NoAdv EXCEPT !.er = data.er, !.result = result, !.message = message,
                  !.captured = data.captured, !.failed = data.failed,
                  !.index = data.index]

SetCap(t, c) == cap' = [cap EXCEPT ![t] = c]

\* the callback returns: handleCapturePhase's finally releases the guard
EndCapture(t) ==
    /\ SetCap(t, IdleCap)
    /\ mem' = [mem EXCEPT ![t].captureInProgress = FALSE]

\* handleCapturePhase: the interval callback (and the call that follows the
\* start of the interval); `if (captureInProgress || isPaused) return`
handleCapturePhaseGuard(t) == ~mem[t].captureInProgress /\ ~mem[t].isPaused

handleCapturePhase(t) ==
    /\ mem[t].loaded /\ mem[t].captureInterval
    /\ cap[t].pc = "idle"
    /\ handleCapturePhaseGuard(t)
    /\ IF isLoginPage(t)
       THEN /\ store' = [store EXCEPT !.loginPending = TRUE]
            /\ UNCHANGED <<mem, cap>>
       ELSE /\ mem' = [mem EXCEPT ![t].captureInProgress = TRUE]
            /\ SetCap(t, [IdleCap EXCEPT !.pc = "get", !.own = isAutomationTab(t),
                                          !.late = hist.halted])
            /\ UNCHANGED store
    /\ UNCHANGED <<page, scr, uop, now, hist>>

\* history: the tick with continuation c drives the page or moves the queue;
\* remembered when the tick began while the automation was halted for an
\* intervention and it still is, and when the tick read the document while a
\* dialog of unknown type was on its page
Acted(c) ==
    [hist EXCEPT !.acted = @ \/ (hist.halted /\ c.late),
                 !.blind = @ \/ c.blind]

TickActed(t) == Acted(cap[t])

\* history: the submit button of the capture form was clicked for employer
\* er (submits counts the clicks of each employer, up to three)
Clicked(h, er) ==
    [h EXCEPT !.submits = [e \in DOMAIN @ |->
                              IF e = er /\ @[e] < 3 THEN @[e] + 1 ELSE @[e]]]

\* the tab navigates: its document is replaced by the page at url
Navigate(t, url) ==
    /\ Unload(t)
    /\ page' = [page EXCEPT ![t] = [InitPage EXCEPT !.url = url]]

\* page detection of doCaptureStep, reached when no dialog, no pending
\* response and no timeout ended the step; controls: the ER input and the
\* continue button of the employer page are there
FormEntry(t, c, controls) ==
    IF page[t].url = "employer"
    THEN IF controls
         THEN /\ SetCap(t, [c EXCEPT !.pc = "emp", !.k = 1])
              /\ UNCHANGED <<mem, page, scr, uop, hist>>
         ELSE /\ EndCapture(t)
              /\ UNCHANGED <<page, scr, uop, hist>>
    ELSE IF page[t].url = "capture"
    THEN IF page[t].formEr # c.data.er
         THEN \* wrong employer displayed: navigate to the employer page
              /\ Navigate(t, "employer")
              /\ hist' = Acted(c)
         ELSE /\ SetCap(t, [c EXCEPT !.pc = "fill", !.k = 1])
              /\ UNCHANGED <<mem, page, scr, uop, hist>>
    ELSE \* unknown page: count, and navigate when stuck
         IF mem[t].stuckCounter + 1 >= MAX_STUCK_COUNT
         THEN /\ Navigate(t, "employer")
              /\ hist' = Acted(c)
         ELSE /\ SetCap(t, IdleCap)
              /\ mem' = [mem EXCEPT ![t].captureInProgress = FALSE,
                                    ![t].stuckCounter = @ + 1]
              /\ UNCHANGED <<page, scr, uop, hist>>

\* doCaptureStep, from the resolution of its safeGet to its next await;
\* closeBtn: the dialog has the button handleModal looks for
doCaptureStep(t, closeBtn, controls) ==
    /\ cap[t].pc = "get"
    /\ LET queue == store.captureQueue
           index == store.currentCaptureIndex
           modalState == detectModalState(t)
           data == [index |-> index,
                    er |-> IF index < Len(queue) THEN queue[index + 1].er ELSE Null,
                    captured |-> store.capturedErs, failed |-> store.failedErs,
                    retries |-> store.retryCount]
           c == [cap[t] EXCEPT !.data = data,
                               !.blind = (modalState.type = "unknown"),
                               !.modal = page[t].dialog]
       IN  IF store.phase # "CAPTURE"
           THEN EndCapture(t) /\ UNCHANGED <<store, page, scr, uop, hist>>
           ELSE IF queue = <<>> /\ store.scrapedResults # <<>>
           THEN \* queue population
                IF BuildCaptureQueue(store.scrapedResults) # <<>>
                THEN /\ SetCap(t, [c EXCEPT !.pc = "pop_set"])
                     /\ UNCHANGED <<store, mem, page, scr, uop, hist>>
                ELSE EndCapture(t) /\ UNCHANGED <<store, page, scr, uop, hist>>
           ELSE IF queue = <<>> \/ index >= Len(queue)
           THEN EndCapture(t) /\ UNCHANGED <<store, page, scr, uop, hist>>
           ELSE IF data.er \in Range(data.captured) \cup Range(data.failed)
           THEN \* skip if already processed
                /\ SetCap(t, [c EXCEPT !.pc = "skip_set"])
                /\ UNCHANGED <<store, mem, page, scr, uop, hist>>
           ELSE IF modalState.type \in {"receipt", "success", "error"} /\ closeBtn
           THEN \* handleModal clicks the dialog away; advanceToNextER follows
                /\ page' = [page EXCEPT ![t].dialog = "none", ![t].submitted = FALSE]
                /\ SetCap(t, [c EXCEPT
                        !.pc = "adv_get", !.why = "dialog",
                        !.adv = AdvArgs(data, ModalResult(modalState),
                                        ModalMessage(modalState))])
                /\ hist' = Acted(c)
                /\ UNCHANGED <<store, mem, scr, uop>>
           ELSE IF modalState.type = "unknown"
           THEN \* pause and ask for intervention
                /\ mem' = [mem EXCEPT ![t].isPaused = TRUE]
                /\ SetCap(t, [c EXCEPT !.pc = "int_set"])
                /\ UNCHANGED <<store, page, scr, uop, hist>>
           ELSE IF store.awaitingResponse /\ store.lastSubmitTime > 0
           THEN IF now - store.lastSubmitTime > RESPONSE_TIMEOUT_MS
                THEN /\ IF data.retries < 1
                        THEN SetCap(t, [c EXCEPT !.pc = "retry_set"])
                        ELSE SetCap(t, [c EXCEPT
                                !.pc = "adv_get", !.why = "timeout",
                                !.adv = AdvArgs(data, "failed", "")])
                     /\ hist' = [hist EXCEPT !.timeouts = IF @ < 3 THEN @ + 1 ELSE @]
                     /\ UNCHANGED <<store, mem, page, scr, uop>>
                ELSE \* still waiting for the response
                     EndCapture(t) /\ UNCHANGED <<store, page, scr, uop, hist>>
           ELSE FormEntry(t, c, controls) /\ UNCHANGED store
    /\ UNCHANGED now

\* doCaptureStep: safeSet of the populated queue, then the page reloads
doCaptureStepPopulate(t) ==
    /\ cap[t].pc = "pop_set"
    /\ store' = [store EXCEPT
                    !.captureQueue = BuildCaptureQueue(store.scrapedResults),
                    !.currentCaptureIndex = 0,
                    !.capturedErs = <<>>,
                    !.failedErs = <<>>,
                    !.captureResults = NoResults]
    /\ Navigate(t, page[t].url)
    /\ hist' = TickActed(t)
    /\ UNCHANGED now

\* doCaptureStep: safeSet that passes over an already processed item
doCaptureStepSkipProcessed(t) ==
    /\ cap[t].pc = "skip_set"
    /\ store' = [store EXCEPT
                    !.currentCaptureIndex = cap[t].data.index + 1,
                    !.retryCount = 0,
                    !.awaitingResponse = FALSE]
    /\ SetCap(t, IdleCap)
    /\ mem' = [mem EXCEPT ![t].captureInProgress = FALSE, ![t].stuckCounter = 0]
    /\ hist' = TickActed(t)
    /\ UNCHANGED <<page, scr, uop, now>>

\* doCaptureStep: safeSet({isPaused: true, interventionRequired: true})
doCaptureStepIntervention(t) ==
    /\ cap[t].pc = "int_set"
    /\ store' = [store EXCEPT !.isPaused = TRUE, !.interventionRequired = TRUE]
    /\ EndCapture(t)
    /\ hist' = [hist EXCEPT !.halted = TRUE]
    /\ UNCHANGED <<page, scr, uop, now>>

\* a retry that does not count itself
doCaptureStepRetryKeepsCount(t, controls) ==
    /\ cap[t].pc = "retry_set"
    /\ store' = [store EXCEPT
                    !.awaitingResponse = FALSE,
                    !.lastSubmitTime = 0]
    /\ FormEntry(t, cap[t], controls)
    /\ UNCHANGED now

\* doCaptureStep: the first timeout; safeSet of the retry, then the form again
doCaptureStepRetry(t, controls) ==
    /\ cap[t].pc = "retry_set"
    /\ store' = [store EXCEPT
                    !.retryCount = cap[t].data.retries + 1,
                    !.awaitingResponse = FALSE,
                    !.lastSubmitTime = 0]
    /\ FormEntry(t, cap[t], controls)
    /\ UNCHANGED now

\* checkPauseState: the stored pause flag stops the step
checkPauseState(t) == ~store.isPaused

\* the step stops at a pause check
PauseDetected(t) ==
    /\ SetCap(t, IdleCap)
    /\ mem' = [mem EXCEPT ![t].captureInProgress = FALSE, ![t].isPaused = TRUE]
    /\ UNCHANGED <<store, page, scr, uop, now, hist>>

\* doCaptureStep on the employer page: a pause check, then the ER is typed
\* (k = 1) or continue is clicked (k = 2); valueTook: the input kept the value
doCaptureStepEmployer(t, valueTook) ==
    /\ cap[t].pc = "emp"
    /\ IF ~checkPauseState(t)
       THEN PauseDetected(t)
       ELSE IF cap[t].k = 1
       THEN /\ SetCap(t, [cap[t] EXCEPT !.k = 2])
            /\ hist' = TickActed(t)
            /\ UNCHANGED <<store, mem, page, scr, uop, now>>
       ELSE /\ IF valueTook
               THEN /\ page' = [page EXCEPT ![t] =
                                   [InitPage EXCEPT !.url = "capture",
                                                    !.formEr = cap[t].data.er]]
                    /\ mem' = [mem EXCEPT ![t].captureInProgress = FALSE,
                                          ![t].stuckCounter = 0]
                    /\ hist' = TickActed(t)
               ELSE /\ mem' = [mem EXCEPT ![t].captureInProgress = FALSE]
                    /\ UNCHANGED <<page, hist>>
            /\ SetCap(t, IdleCap)
            /\ UNCHANGED <<store, scr, uop, now>>

\* doCaptureStep on the capture form: a pause check, then one field is set
\* (k < FormChecks) or the submit button is tried (k = FormChecks);
\* submitEnabled: the button is there and enabled
doCaptureStepFill(t, submitEnabled) ==
    /\ cap[t].pc = "fill"
    /\ IF ~checkPauseState(t)
       THEN PauseDetected(t)
       ELSE IF cap[t].k < FormChecks
       THEN /\ SetCap(t, [cap[t] EXCEPT !.k = @ + 1])
            /\ hist' = TickActed(t)
            /\ UNCHANGED <<store, mem, page, scr, uop, now>>
       ELSE IF submitEnabled
       THEN \* lastSubmitTime = Date.now(), then the safeSet is awaited
            /\ SetCap(t, [cap[t] EXCEPT !.pc = "submit_set", !.submitTime = now])
            /\ UNCHANGED <<store, mem, page, scr, uop, now, hist>>
       ELSE IF mem[t].stuckCounter + 1 >= MAX_STUCK_COUNT
       THEN /\ mem' = [mem EXCEPT ![t].stuckCounter = @ + 1]
            /\ SetCap(t, [cap[t] EXCEPT
                    !.pc = "adv_get", !.why = "stuck",
                    !.adv = AdvArgs(cap[t].data, "failed", "")])
            /\ UNCHANGED <<store, page, scr, uop, now, hist>>
       ELSE /\ mem' = [mem EXCEPT ![t].captureInProgress = FALSE,
                                  ![t].stuckCounter = @ + 1]
            /\ SetCap(t, IdleCap)
            /\ UNCHANGED <<store, page, scr, uop, now, hist>>

\* doCaptureStep: the submission time is stored, then the button is clicked
doCaptureStepSubmit(t) ==
    /\ cap[t].pc = "submit_set"
    /\ store' = [store EXCEPT !.lastSubmitTime = cap[t].submitTime,
                              !.awaitingResponse = TRUE]
    /\ page' = [page EXCEPT ![t].submitted = TRUE]
    /\ mem' = [mem EXCEPT ![t].captureInProgress = FALSE, ![t].stuckCounter = 0]
    /\ SetCap(t, IdleCap)
    /\ hist' = Clicked(TickActed(t), cap[t].data.er)
    /\ UNCHANGED <<scr, uop, now>>

\* advanceToNextER called by the step: its safeGet resolves, the update is
\* built and, on the last item, the interval is cleared
advanceToNextER(t) ==
    /\ cap[t].pc = "adv_get"
    /\ LET upd == AdvanceUpdate(cap[t].adv, store.captureResults, store.captureQueue)
       IN  /\ SetCap(t, [cap[t] EXCEPT !.pc = "adv_set", !.adv = upd])
           /\ mem' = [mem EXCEPT ![t].captureInterval =
                          IF upd.complete THEN FALSE ELSE @]
    /\ UNCHANGED <<store, page, scr, uop, now, hist>>

\* advanceToNextER: safeSet(stateUpdate), the counters are reset
advanceToNextERSave(t) ==
    /\ cap[t].pc = "adv_set"
    /\ store' = ApplyAdvance(store, cap[t].adv)
    /\ mem' = [mem EXCEPT ![t].stuckCounter = 0]
    /\ SetCap(t, [cap[t] EXCEPT !.pc = "adv_nav"])
    /\ hist' = [TickActed(t) EXCEPT !.timeouts = 0]
    /\ UNCHANGED <<page, scr, uop, now>>

\* advanceToNextER: after its wait the tab reloads (last item) or navigates
advanceToNextERNavigate(t) ==
    /\ cap[t].pc = "adv_nav"
    /\ Navigate(t, IF cap[t].adv.last THEN page[t].url ELSE "employer")
    /\ hist' = TickActed(t)
    /\ UNCHANGED <<store, now>>

(***************************************************************************)
(* The remote side of the capture form and the clock.                      *)
(***************************************************************************)
Dialogs == {"receipt", "success", "error_dup", "error_other", "unknown"}

\* the portal answers a submission with a dialog
DialogAppears(t, d) ==
    /\ mem[t].loaded
    /\ page[t].url = "capture" /\ page[t].submitted
    /\ page[t].dialog = "none"
    /\ page' = [page EXCEPT ![t].dialog = d]
    /\ UNCHANGED <<store, mem, scr, cap, uop, now, hist>>

\* time passes beyond the response timeout while a response is awaited; a
\* step in flight takes far less than the timeout
ResponseTimeout ==
    /\ store.awaitingResponse /\ store.lastSubmitTime > 0
    /\ \A t \in Tabs : cap[t].pc = "idle" /\ uop[t].pc = "idle"
    /\ now - store.lastSubmitTime <= RESPONSE_TIMEOUT_MS
    /\ now' = now + RESPONSE_TIMEOUT_MS + 1
    /\ UNCHANGED <<store, mem, page, scr, cap, uop, hist>>

(***************************************************************************)
(* content.js: the dashboard of an automation tab (user-initiated).        *)
(***************************************************************************)
UserMayPress(t) ==
    /\ mem[t].loaded /\ mem[t].dashboard
    /\ \A u \in Tabs : uop[u].pc = "idle"
    /\ hist.clicks < MaxClicks

\* updateDashboardUI, run on storage changes and by the dashboard's poll: it
\* copies the stored pause flag into the script's variable
updateDashboardUI(t) ==
    /\ mem[t].loaded /\ mem[t].dashboard
    /\ mem[t].isPaused # store.isPaused
    /\ mem' = [mem EXCEPT ![t].isPaused = store.isPaused]
    /\ UNCHANGED <<store, page, scr, cap, uop, now, hist>>

\* the pause button: pause, or resume and clear the intervention
togglePause(t) ==
    /\ UserMayPress(t)
    /\ mem' = [mem EXCEPT ![t].isPaused = ~@]
    /\ store' = IF ~mem[t].isPaused
                THEN [store EXCEPT !.isPaused = TRUE]
                ELSE [store EXCEPT !.isPaused = FALSE, !.interventionRequired = FALSE]
    /\ hist' = [hist EXCEPT !.clicks = @ + 1,
                            !.halted = IF mem[t].isPaused THEN FALSE ELSE @]
    /\ UNCHANGED <<page, scr, cap, uop, now>>

\* the skip button during capture: the phase is read and confirm() answered yes
dashSkip(t) ==
    /\ UserMayPress(t)
    /\ store.phase = "CAPTURE"
    /\ uop' = [uop EXCEPT ![t] = [IdleOp EXCEPT !.pc = "skip_get", !.op = "skip"]]
    /\ hist' = [hist EXCEPT !.clicks = @ + 1, !.halted = FALSE]
    /\ UNCHANGED <<store, mem, page, scr, cap, now>>

\* skipCurrentER: its safeGet resolves
skipCurrentER(t) ==
    /\ uop[t].pc = "skip_get"
    /\ LET queue == store.captureQueue
           index == store.currentCaptureIndex
       IN  IF index >= Len(queue)
           THEN uop' = [uop EXCEPT ![t] = IdleOp]
           ELSE uop' = [uop EXCEPT ![t] =
                    [uop[t] EXCEPT
                        !.pc = "adv_get",
                        !.adv = [NoAdv EXCEPT
                                    !.er = queue[index + 1].er,
                                    !.result = "skipped",
                                    !.message = "Manually skipped by user",
                                    !.captured = store.capturedErs,
                                    !.failed = store.failedErs,
                                    !.index = index]]]
    /\ UNCHANGED <<store, mem, page, scr, cap, now, hist>>

\* advanceToNextER called by skipCurrentER: its safeGet resolves
skipAdvanceToNextER(t) ==
    /\ uop[t].pc = "adv_get"
    /\ LET upd == AdvanceUpdate(uop[t].adv, store.captureResults, store.captureQueue)
       IN  /\ uop' = [uop EXCEPT ![t] = [uop[t] EXCEPT !.pc = "adv_set", !.adv = upd]]
           /\ mem' = [mem EXCEPT ![t].captureInterval =
                          IF upd.complete THEN FALSE ELSE @]
    /\ UNCHANGED <<store, page, scr, cap, now, hist>>

\* advanceToNextER called by skipCurrentER: safeSet(stateUpdate)
skipAdvanceToNextERSave(t) ==
    /\ uop[t].pc = "adv_set"
    /\ store' = ApplyAdvance(store, uop[t].adv)
    /\ mem' = [mem EXCEPT ![t].stuckCounter = 0]
    /\ uop' = [uop EXCEPT ![t] = [uop[t] EXCEPT !.pc = "adv_nav"]]
    /\ hist' = [hist EXCEPT !.timeouts = 0]
    /\ UNCHANGED <<page, scr, cap, now>>

\* advanceToNextER called by skipCurrentER: the tab reloads or navigates
skipAdvanceToNextERNavigate(t) ==
    /\ uop[t].pc = "adv_nav"
    /\ Navigate(t, IF uop[t].adv.last THEN page[t].url ELSE "employer")
    /\ UNCHANGED <<store, now, hist>>

\* the document the stop button's safeSet leaves
StopState(s) ==
    [s EXCEPT
        !.phase = "IDLE",
        !.erQueue = <<>>,
        !.captureQueue = <<>>,
        !.validationQueue = <<>>,
        !.wageEditQueue = <<>>,
        !.needsWageEdit = <<>>,
        !.interventionRequired = FALSE,
        !.automationTabId = Null]

\* the stop button, confirm() answered yes: three intervals are cleared, the
\* script's pause flag is reset and the safeSet is issued
dashStop(t) ==
    /\ UserMayPress(t)
    /\ mem' = [mem EXCEPT
                  ![t].captureInterval = FALSE,
                  ![t].validationInterval = FALSE,
                  ![t].wageEditInterval = FALSE,
                  ![t].isPaused = FALSE]
    /\ uop' = [uop EXCEPT ![t] = [IdleOp EXCEPT !.pc = "stop_set", !.op = "stop"]]
    /\ hist' = [hist EXCEPT !.clicks = @ + 1, !.halted = FALSE]
    /\ UNCHANGED <<store, page, scr, cap, now>>

\* the stop button: its safeSet takes effect
dashStopSave(t) ==
    /\ uop[t].pc = "stop_set"
    /\ store' = StopState(store)
    /\ uop' = [uop EXCEPT ![t] = [uop[t] EXCEPT !.pc = "stop_reload"]]
    /\ hist' = [hist EXCEPT !.stopped = TRUE]
    /\ UNCHANGED <<mem, page, scr, cap, now>>

\* the stop button: window.location.reload()
dashStopReload(t) ==
    /\ uop[t].pc = "stop_reload"
    /\ Navigate(t, page[t].url)
    /\ UNCHANGED <<store, now, hist>>

(***************************************************************************)
(* content.js: the wage edit phase.                                        *)
(***************************************************************************)
\* an entry of needsWageEdit, as the validation loop leaves it
WageItem(er) == [er |-> er, searchAttempted |-> FALSE, editResult |-> "none"]

\* an entry of validationQueue made of an edited item; an entry that comes
\* back counted as not found is the variant used to test the claims
EditedItemCounted(item) == [er |-> item.er, notFoundCount |-> 1, searchAttempted |-> FALSE]

EditedItem(item) == [er |-> item.er, notFoundCount |-> 0, searchAttempted |-> FALSE]

\* the wage-edit button: the tab registers itself
startWageEditPhase(t) ==
    /\ UserMayStart(t)
    /\ store' = registerThisTabAsAutomationTab(t)
    /\ uop' = [uop EXCEPT ![t] = [IdleOp EXCEPT !.pc = "start", !.op = "wage"]]
    /\ hist' = [hist EXCEPT !.starts[t] = @ + 1, !.halted = FALSE, !.stopped = FALSE]
    /\ UNCHANGED <<mem, page, scr, cap, now>>

\* startWageEditPhase: needsWageEdit becomes the queue, the tab navigates
startWageEditPhaseSave(t) ==
    /\ uop[t].pc = "start" /\ uop[t].op = "wage"
    /\ IF store.needsWageEdit = <<>>
       THEN \* alert: nothing to edit
            /\ uop' = [uop EXCEPT ![t] = IdleOp]
            /\ UNCHANGED <<store, mem, page, scr, cap>>
       ELSE /\ store' = [store EXCEPT
                            !.phase = "WAGE_EDIT",
                            !.wageEditQueue = store.needsWageEdit,
                            !.currentWageEditIndex = 0,
                            !.isPaused = FALSE,
                            !.interventionRequired = FALSE]
            /\ Navigate(t, "unprocessed")
    /\ UNCHANGED <<now, hist>>

\* the callback returns: the interval callback releases its guard
EndWageEdit(t) ==
    /\ SetCap(t, IdleCap)
    /\ mem' = [mem EXCEPT ![t].wageEditInProgress = FALSE]

\* the callback returns after one more fruitless look at the page
EndWageEditStuck(t) ==
    /\ SetCap(t, IdleCap)
    /\ mem' = [mem EXCEPT ![t].wageEditInProgress = FALSE, ![t].stuckCounter = @ + 1]

\* runWageEditLoop: the interval callback;
\* `if (isPaused || wageEditInProgress) return`
runWageEditLoop(t) ==
    /\ mem[t].loaded /\ mem[t].wageEditInterval
    /\ cap[t].pc = "idle"
    /\ ~mem[t].isPaused /\ ~mem[t].wageEditInProgress
    /\ mem' = [mem EXCEPT ![t].wageEditInProgress = TRUE]
    /\ SetCap(t, [IdleCap EXCEPT !.pc = "w_get", !.own = isAutomationTab(t),
                                  !.late = hist.halted])
    /\ UNCHANGED <<store, page, scr, uop, now, hist>>

\* the arguments of a call of advanceWageEdit
WageAdv(c, result) == [c EXCEPT !.pc = "w_adv_get", !.adv = [NoAdv EXCEPT !.result = result]]

\* doWageEditStep, from the resolution of its safeGet to its next await;
\* found: the list shows the item's row with its edit link; controls: the
\* search input of the list, or the amount input and update button of the
\* edit page, are there.  The step does not look for dialogs: what
\* detectModalState would say of the page is kept as history only.
doWageEditStep(t, found, controls) ==
    /\ cap[t].pc = "w_get"
    /\ LET queue == store.wageEditQueue
           index == store.currentWageEditIndex
           currentER == IF index < Len(queue) THEN queue[index + 1].er ELSE Null
           c == [cap[t] EXCEPT !.data = [NoData EXCEPT !.index = index, !.er = currentER],
                               !.wq = queue,
                               !.blind = (detectModalState(t).type = "unknown")]
           stuck == mem[t].stuckCounter + 1 >= MAX_STUCK_COUNT
       IN  IF store.phase # "WAGE_EDIT"
           THEN EndWageEdit(t) /\ UNCHANGED <<page, scr, uop, hist>>
           ELSE IF queue = <<>> \/ index >= Len(queue)
           THEN \* the phase is complete: the interval is cleared
                /\ SetCap(t, [c EXCEPT !.pc = "w_done_get"])
                /\ mem' = [mem EXCEPT ![t].wageEditInterval = FALSE]
                /\ UNCHANGED <<page, scr, uop, hist>>
           ELSE IF page[t].url = "unprocessed"
           THEN IF found
                THEN \* the edit link is clicked
                     /\ page' = [page EXCEPT ![t] =
                                    [InitPage EXCEPT !.url = "edit", !.formEr = currentER]]
                     /\ IF queue[index + 1].searchAttempted
                        THEN /\ SetCap(t, [c EXCEPT !.pc = "w_reset_set"])
                             /\ UNCHANGED mem
                        ELSE /\ SetCap(t, IdleCap)
                             /\ mem' = [mem EXCEPT ![t].wageEditInProgress = FALSE,
                                                   ![t].stuckCounter = 0]
                     /\ hist' = Acted(c)
                     /\ UNCHANGED <<scr, uop>>
                ELSE IF controls /\ ~queue[index + 1].searchAttempted
                THEN \* the portal's search is used
                     /\ page' = [page EXCEPT ![t].searching = currentER]
                     /\ SetCap(t, [c EXCEPT !.pc = "w_search_set"])
                     /\ hist' = Acted(c)
                     /\ UNCHANGED <<mem, scr, uop>>
                ELSE IF stuck
                THEN /\ SetCap(t, WageAdv(c, "not_found"))
                     /\ mem' = [mem EXCEPT ![t].stuckCounter = @ + 1]
                     /\ UNCHANGED <<page, scr, uop, hist>>
                ELSE EndWageEditStuck(t) /\ UNCHANGED <<page, scr, uop, hist>>
           ELSE IF page[t].url = "edit"
           THEN IF page[t].formEr # Null /\ page[t].formEr # currentER
                THEN \* wrong employer displayed: back to the list
                     /\ Navigate(t, "unprocessed")
                     /\ hist' = Acted(c)
                ELSE IF controls
                THEN \* the amount is set and update is clicked
                     /\ page' = [page EXCEPT ![t].submitted = TRUE]
                     /\ SetCap(t, WageAdv(c, "updated"))
                     /\ hist' = Acted(c)
                     /\ UNCHANGED <<mem, scr, uop>>
                ELSE IF stuck
                THEN /\ SetCap(t, WageAdv(c, "stuck"))
                     /\ mem' = [mem EXCEPT ![t].stuckCounter = @ + 1]
                     /\ UNCHANGED <<page, scr, uop, hist>>
                ELSE EndWageEditStuck(t) /\ UNCHANGED <<page, scr, uop, hist>>
           ELSE \* unknown page
                IF mem[t].stuckCounter + 1 >= 3
                THEN /\ Navigate(t, "unprocessed")
                     /\ hist' = Acted(c)
                ELSE EndWageEditStuck(t) /\ UNCHANGED <<page, scr, uop, hist>>
    /\ UNCHANGED <<store, now>>

\* the queue with the search mark of its item at index set to b
MarkSearch(queue, index, b) ==
    IF index < Len(queue)
    THEN [queue EXCEPT ![index + 1].searchAttempted = b]
    ELSE queue

\* doWageEditStep: safeSet of the queue with the search mark reset
doWageEditStepFound(t) ==
    /\ cap[t].pc = "w_reset_set"
    /\ store' = [store EXCEPT
                    !.wageEditQueue = MarkSearch(cap[t].wq, cap[t].data.index, FALSE)]
    /\ SetCap(t, IdleCap)
    /\ mem' = [mem EXCEPT ![t].wageEditInProgress = FALSE, ![t].stuckCounter = 0]
    /\ hist' = TickActed(t)
    /\ UNCHANGED <<page, scr, uop, now>>

\* doWageEditStep: safeSet of the queue with the search marked as attempted
doWageEditStepSearched(t) ==
    /\ cap[t].pc = "w_search_set"
    /\ store' = [store EXCEPT
                    !.wageEditQueue = MarkSearch(cap[t].wq, cap[t].data.index, TRUE)]
    /\ EndWageEdit(t)
    /\ hist' = TickActed(t)
    /\ UNCHANGED <<page, scr, uop, now>>

\* the queue advanceWageEdit writes: the result is put on the item at index
EditedQueue(queue, index, result) ==
    IF index < Len(queue)
    THEN [queue EXCEPT ![index + 1].editResult = result]
    ELSE queue

\* advanceWageEdit: its safeGet resolves
advanceWageEdit(t) ==
    /\ cap[t].pc = "w_adv_get"
    /\ SetCap(t, [cap[t] EXCEPT
            !.pc = "w_adv_set",
            !.wq = EditedQueue(store.wageEditQueue, cap[t].data.index, cap[t].adv.result)])
    /\ UNCHANGED <<store, mem, page, scr, uop, now, hist>>

\* advanceWageEdit: its safeSet; then the step navigates to the list, or
\* returns when the item was not found there
advanceWageEditSave(t) ==
    /\ cap[t].pc = "w_adv_set"
    /\ store' = [store EXCEPT
                    !.wageEditQueue = cap[t].wq,
                    !.currentWageEditIndex = cap[t].data.index + 1]
    /\ IF cap[t].adv.result = "not_found"
       THEN /\ SetCap(t, IdleCap)
            /\ mem' = [mem EXCEPT ![t].wageEditInProgress = FALSE, ![t].stuckCounter = 0]
            /\ UNCHANGED <<page, scr, uop>>
       ELSE Navigate(t, "unprocessed")
    /\ hist' = TickActed(t)
    /\ UNCHANGED now

\* doWageEditStep at the end of the queue: the validation queue is read
doWageEditStepComplete(t) ==
    /\ cap[t].pc = "w_done_get"
    /\ SetCap(t, [cap[t] EXCEPT !.pc = "w_done_set", !.vq = store.validationQueue])
    /\ UNCHANGED <<store, mem, page, scr, uop, now, hist>>

\* doWageEditStep at the end of the queue: the edited items go back to the
\* validation queue and the tab navigates to the list
doWageEditStepCompleteSave(t) ==
    /\ cap[t].pc = "w_done_set"
    /\ store' = [store EXCEPT
                    !.phase = "VALIDATION",
                    !.needsWageEdit = <<>>,
                    !.wageEditQueue = <<>>,
                    !.validationQueue =
                        cap[t].vq \o [k \in DOMAIN cap[t].wq |-> EditedItem(cap[t].wq[k])],
                    !.currentValidationIndex = 0,
                    !.validationState = "none"]
    /\ Navigate(t, "unprocessed")
    /\ hist' = TickActed(t)
    /\ UNCHANGED now

\* the portal shows a dialog over the list or the edit page
WageDialogAppears(t, d) ==
    /\ mem[t].loaded
    /\ page[t].url \in {"unprocessed", "edit"}
    /\ page[t].dialog = "none"
    /\ page' = [page EXCEPT ![t].dialog = d]
    /\ UNCHANGED <<store, mem, scr, cap, uop, now, hist>>

(***************************************************************************)
(* content.js: the validation phase.  The continuation of the interval     *)
(* callback of runValidationLoop is kept in cap[t], as that of the other   *)
(* loops: data.captured and data.failed hold the validatedErs and          *)
(* validationFailedErs the step has read, vq the queue it has read or is   *)
(* about to write, wq the needsWageEdit list it is about to write.         *)
(***************************************************************************)
\* MIN_CTB = 79.35, in cents
MIN_CTB == 7935

\* an entry of validationQueue
ValidationItem(er) == [er |-> er, notFoundCount |-> 0, searchAttempted |-> FALSE]

Max(a, b) == IF a >= b THEN a ELSE b

RECURSIVE SumSeq(_)
SumSeq(s) == IF s = <<>> THEN 0 ELSE Head(s) + SumSeq(Tail(s))

\* checkMinimumCtb: the contributions of the employee table that are above 0
\* and below the minimum; a check that also takes the minimum itself is the
\* variant used to test the claims
checkMinimumCtbInclusive(employees) ==
    SelectSeq(employees, LAMBDA ctb : ctb > 0 /\ ctb <= MIN_CTB)

checkMinimumCtb(employees) ==
    SelectSeq(employees, LAMBDA ctb : ctb > 0 /\ ctb < MIN_CTB)

\* calculateAdjustedTotal: the rows with ctb > 0 are summed, as they are and
\* with the minimum applied; a calculation that raises a contribution only
\* when it is below half the minimum is the variant used to test the claims
calculateAdjustedTotalHalf(employees) ==
    LET counted == SelectSeq(employees, LAMBDA ctb : ctb > 0)
    IN  [currentTotal |-> SumSeq(counted),
         adjustedTotal |->
            SumSeq([k \in DOMAIN counted |->
                      IF 2 * counted[k] < MIN_CTB THEN MIN_CTB ELSE counted[k]])]

calculateAdjustedTotal(employees) ==
    LET counted == SelectSeq(employees, LAMBDA ctb : ctb > 0)
    IN  [currentTotal |-> SumSeq(counted),
         adjustedTotal |->
            SumSeq([k \in DOMAIN counted |-> Max(counted[k], MIN_CTB)])]

\* the entry doValidationStep pushes on needsWageEdit
CtbItem(er, employees) ==
    [er |-> er, searchAttempted |-> FALSE, editResult |-> "none",
     currentTotal |-> calculateAdjustedTotal(employees).currentTotal,
     adjustedTotal |-> calculateAdjustedTotal(employees).adjustedTotal,
     affectedEmployees |-> Len(checkMinimumCtb(employees))]

\* PageOps.detectModal, were the consent dialog taken for a success by its
\* .btn-success control
detectModalNoConsent(t) ==
    LET d == page[t].dialog
    IN  [type |-> CASE d \in {"none", "import"} -> "none"
                    [] d = "consent" -> "success"
                    [] d = "receipt" -> "receipt"
                    [] d = "success" -> "success"
                    [] d \in {"error_dup", "error_other"} -> "error"
                    [] OTHER -> "unknown",
         message |-> d]

\* PageOps.detectModal: the type of the visible dialog; the import dialog is
\* taken to be none of the types (the step looks for it separately)
detectModal(t) ==
    LET d == page[t].dialog
    IN  [type |-> CASE d \in {"none", "import"} -> "none"
                    [] d = "consent" -> "consent"
                    [] d = "receipt" -> "receipt"
                    [] d = "success" -> "success"
                    [] d \in {"error_dup", "error_other"} -> "error"
                    [] OTHER -> "unknown",
         message |-> d]

\* the callback returns: the interval callback releases its guard
EndValidation(t) ==
    /\ SetCap(t, IdleCap)
    /\ mem' = [mem EXCEPT ![t].validationInProgress = FALSE]

EndValidationStuck(t) ==
    /\ SetCap(t, IdleCap)
    /\ mem' = [mem EXCEPT ![t].validationInProgress = FALSE, ![t].stuckCounter = @ + 1]

\* runValidationLoop: the interval callback;
\* `if (isPaused || validationInProgress) return`
runValidationLoop(t) ==
    /\ mem[t].loaded /\ mem[t].validationInterval
    /\ cap[t].pc = "idle"
    /\ ~mem[t].isPaused /\ ~mem[t].validationInProgress
    /\ mem' = [mem EXCEPT ![t].validationInProgress = TRUE]
    /\ SetCap(t, [IdleCap EXCEPT !.pc = "v_get", !.own = isAutomationTab(t),
                                  !.late = hist.halted])
    /\ UNCHANGED <<store, page, scr, uop, now, hist>>

\* the arguments of a call of advanceValidation, were the message left out
ValAdvNoMessage(c, result, why, message) ==
    [c EXCEPT !.pc = "va_get", !.why = why, !.adv = [NoAdv EXCEPT !.result = result]]

\* the arguments of a call of advanceValidation
ValAdv(c, result, why, message) ==
    [c EXCEPT !.pc = "va_get", !.why = why,
              !.adv = [NoAdv EXCEPT !.result = result, !.message = message]]

\* the step pauses and asks for an intervention
ValIntervene(t, c) ==
    /\ mem' = [mem EXCEPT ![t].isPaused = TRUE]
    /\ SetCap(t, [c EXCEPT !.pc = "v_int_set"])
    /\ UNCHANGED <<page, scr, uop, hist>>

\* updatedQueue.splice(index, 1); a splice that takes nothing out is the
\* variant used to test the claims
RemoveAtKeeps(queue, index) == queue

RemoveAt(queue, index) ==
    SubSeq(queue, 1, index) \o SubSeq(queue, index + 2, Len(queue))

\* the queue with the item at index taken out and put at the back, counted
\* once more as not found
MovedToBack(queue, index) ==
    LET item == [queue[index + 1] EXCEPT !.notFoundCount = @ + 1,
                                          !.searchAttempted = FALSE]
    IN  Append(SubSeq(queue, 1, index) \o SubSeq(queue, index + 2, Len(queue)), item)

\* updatedQueue.every(item => item.notFoundCount >= 3)
allStuck(updatedQueue) ==
    \A k \in DOMAIN updatedQueue : updatedQueue[k].notFoundCount >= 3

\* doValidationStep on the unprocessed list; found: the list shows the
\* item's row; controls: the list has a search input
ValidationList(t, c, found, controls) ==
    LET queue == c.vq
        index == c.data.index
        item == queue[index + 1]
    IN  IF found
        THEN \* the row's link is clicked: the data entry page opens
             /\ page' = [page EXCEPT ![t] =
                            [InitPage EXCEPT !.url = "data_entry", !.formEr = item.er]]
             /\ IF item.notFoundCount > 0 \/ item.searchAttempted
                THEN /\ SetCap(t, [c EXCEPT !.pc = "v_queue_set", !.why = "found",
                            !.vq = [queue EXCEPT ![index + 1].notFoundCount = 0,
                                                 ![index + 1].searchAttempted = FALSE]])
                     /\ mem' = [mem EXCEPT ![t].stuckCounter = 0]
                ELSE /\ SetCap(t, IdleCap)
                     /\ mem' = [mem EXCEPT ![t].validationInProgress = FALSE,
                                           ![t].stuckCounter = 0]
             /\ hist' = Acted(c)
             /\ UNCHANGED <<scr, uop>>
        ELSE IF controls /\ ~item.searchAttempted
        THEN \* the portal's search is used
             /\ page' = [page EXCEPT ![t].searching = item.er]
             /\ SetCap(t, [c EXCEPT !.pc = "v_search_set",
                        !.vq = [queue EXCEPT ![index + 1].searchAttempted = TRUE]])
             /\ hist' = Acted(c)
             /\ UNCHANGED <<mem, scr, uop>>
        ELSE \* not found: the item goes to the back of the queue
             IF allStuck(MovedToBack(queue, index))
             THEN /\ mem' = [mem EXCEPT ![t].isPaused = TRUE]
                  /\ SetCap(t, [c EXCEPT !.pc = "v_stuck_set", !.why = "not_found",
                                         !.vq = MovedToBack(queue, index)])
                  /\ UNCHANGED <<page, scr, uop, hist>>
             ELSE /\ page' = [page EXCEPT ![t].searching = Null]
                  /\ SetCap(t, [c EXCEPT !.pc = "v_queue_set", !.why = "not_found",
                                         !.vq = MovedToBack(queue, index)])
                  /\ hist' = Acted(c)
                  /\ UNCHANGED <<mem, scr, uop>>

\* doValidationStep on the data entry page past the contribution check;
\* found: the submit button is enabled (it is there, disabled, otherwise);
\* controls: the button that opens the import dialog is enabled
ValidationEntry(t, c, found, controls) ==
    IF found
    THEN \* validationSubmitTime = Date.now(), then the safeSet is awaited
         /\ SetCap(t, [c EXCEPT !.pc = "v_submit_set", !.submitTime = now])
         /\ UNCHANGED <<mem, page, scr, uop, hist>>
    ELSE IF controls /\ page[t].dialog # "import"
    THEN \* the import dialog is opened
         /\ page' = [page EXCEPT ![t].dialog = "import"]
         /\ EndValidation(t)
         /\ hist' = Acted(c)
         /\ UNCHANGED <<scr, uop>>
    ELSE IF c.k = 1
    THEN \* submit disabled after the import
         ValIntervene(t, c)
    ELSE IF mem[t].stuckCounter + 1 >= MAX_STUCK_COUNT
    THEN /\ SetCap(t, ValAdv(c, "stuck", "stuck", "Could not complete data entry"))
         /\ mem' = [mem EXCEPT ![t].stuckCounter = @ + 1]
         /\ UNCHANGED <<page, scr, uop, hist>>
    ELSE EndValidationStuck(t) /\ UNCHANGED <<page, scr, uop, hist>>

\* doValidationStep, from the resolution of its safeGet to its next await;
\* found and controls say what the step finds on the page it is on:
\* controls, on a page with a dialog, that the dialog has the button looked
\* for; found, with the import dialog open, that it lists the previous
\* month, and controls that its import button is enabled; employees: the
\* contributions the portal imports when that button is clicked
doValidationStep(t, found, controls, employees) ==
    /\ cap[t].pc = "v_get"
    /\ LET queue == store.validationQueue
           index == store.currentValidationIndex
           currentER == IF index < Len(queue) THEN queue[index + 1].er ELSE Null
           modalState == detectModal(t)
           awaiting == store.validationState = "submitted_awaiting"
           c == [cap[t] EXCEPT
                    !.data = [NoData EXCEPT !.index = index, !.er = currentER,
                                            !.captured = store.validatedErs,
                                            !.failed = store.validationFailedErs],
                    !.vq = queue,
                    !.k = IF store.validationState = "imported" THEN 1 ELSE 0,
                    !.blind = (modalState.type = "unknown"),
                    !.modal = page[t].dialog]
       IN  IF store.phase # "VALIDATION"
           THEN EndValidation(t) /\ UNCHANGED <<page, scr, uop, hist>>
           ELSE IF modalState.type = "consent"
           THEN \* handleConsentModal clicks yes
                /\ IF controls
                   THEN /\ page' = [page EXCEPT ![t].dialog = "none"]
                        /\ hist' = Acted(c)
                   ELSE UNCHANGED <<page, hist>>
                /\ EndValidation(t)
                /\ UNCHANGED <<scr, uop>>
           ELSE IF modalState.type \in {"success", "error"} /\ awaiting
           THEN IF controls
                THEN \* handleModal clicks the dialog away
                     /\ page' = [page EXCEPT ![t].dialog = "none", ![t].submitted = FALSE]
                     /\ IF currentER # Null
                        THEN SetCap(t, ValAdv(c, IF modalState.type = "success"
                                                 THEN "submitted" ELSE "error", "dialog",
                                                 IF modalState.type = "success"
                                                 THEN "Validation successful"
                                                 ELSE modalState.message))
                        ELSE SetCap(t, [c EXCEPT !.pc = "v_nav"])
                     /\ hist' = Acted(c)
                     /\ UNCHANGED <<mem, scr, uop>>
                ELSE EndValidation(t) /\ UNCHANGED <<page, scr, uop, hist>>
           ELSE IF modalState.type = "unknown"
           THEN ValIntervene(t, c)
           ELSE IF awaiting /\ store.validationSubmitTime > 0
           THEN IF now - store.validationSubmitTime > RESPONSE_TIMEOUT_MS
                THEN IF currentER # Null
                     THEN /\ SetCap(t, ValAdv(c, "failed", "timeout",
                                           "Timeout waiting for validation response"))
                          /\ UNCHANGED <<mem, page, scr, uop, hist>>
                     ELSE Navigate(t, "unprocessed") /\ hist' = Acted(c)
                ELSE EndValidation(t) /\ UNCHANGED <<page, scr, uop, hist>>
           ELSE IF queue = <<>>
           THEN EndValidation(t) /\ UNCHANGED <<page, scr, uop, hist>>
           ELSE IF index >= Len(queue)
           THEN \* validation complete: the interval is cleared
                /\ SetCap(t, [c EXCEPT !.pc = "v_done_set"])
                /\ mem' = [mem EXCEPT ![t].validationInterval = FALSE]
                /\ UNCHANGED <<page, scr, uop, hist>>
           ELSE IF currentER \in Range(store.validatedErs) \cup Range(store.validationFailedErs)
           THEN \* skip if already processed
                /\ SetCap(t, [c EXCEPT !.pc = "v_skip_set"])
                /\ UNCHANGED <<mem, page, scr, uop, hist>>
           ELSE IF page[t].dialog = "import"
           THEN IF ~found
                THEN \* the previous month is not in the dialog
                     ValIntervene(t, c)
                ELSE IF controls
                THEN \* the month is selected and import is clicked
                     /\ page' = [page EXCEPT ![t].dialog = "none",
                                             ![t].employees = employees]
                     /\ SetCap(t, [c EXCEPT !.pc = "v_import_set"])
                     /\ hist' = Acted(c)
                     /\ UNCHANGED <<mem, scr, uop>>
                ELSE EndValidation(t) /\ hist' = Acted(c) /\ UNCHANGED <<page, scr, uop>>
           ELSE IF page[t].url = "unprocessed"
           THEN IF store.validationState \notin {"none", "force_scan", "searching"}
                THEN \* the sub-state is reset first
                     /\ SetCap(t, [c EXCEPT !.pc = "v_reset_set"])
                     /\ UNCHANGED <<mem, page, scr, uop, hist>>
                ELSE ValidationList(t, c, found, controls)
           ELSE IF page[t].url = "data_entry"
           THEN IF store.validationState = "imported"
                THEN IF checkMinimumCtb(page[t].employees) # <<>>
                     THEN \* the issue is logged, then needsWageEdit is read
                          /\ SetCap(t, [c EXCEPT !.pc = "v_ctb_get"])
                          /\ UNCHANGED <<mem, page, scr, uop, hist>>
                     ELSE /\ SetCap(t, [c EXCEPT !.pc = "v_checked_set"])
                          /\ UNCHANGED <<mem, page, scr, uop, hist>>
                ELSE ValidationEntry(t, c, found, controls)
           ELSE \* unknown page
                IF mem[t].stuckCounter + 1 >= 3
                THEN Navigate(t, "unprocessed") /\ hist' = Acted(c)
                ELSE EndValidationStuck(t) /\ UNCHANGED <<page, scr, uop, hist>>
    /\ UNCHANGED <<store, now>>

\* doValidationStep: safeSet({isPaused: true, interventionRequired: true})
doValidationStepIntervention(t) ==
    /\ cap[t].pc = "v_int_set"
    /\ store' = [store EXCEPT !.isPaused = TRUE, !.interventionRequired = TRUE]
    /\ EndValidation(t)
    /\ hist' = [hist EXCEPT !.halted = TRUE]
    /\ UNCHANGED <<page, scr, uop, now>>

\* doValidationStep: safeSet({phase: 'COMPLETE'})
doValidationStepComplete(t) ==
    /\ cap[t].pc = "v_done_set"
    /\ store' = [store EXCEPT !.phase = "COMPLETE"]
    /\ EndValidation(t)
    /\ hist' = TickActed(t)
    /\ UNCHANGED <<page, scr, uop, now>>

\* doValidationStep: safeSet that passes over an already processed item
doValidationStepSkipProcessed(t) ==
    /\ cap[t].pc = "v_skip_set"
    /\ store' = [store EXCEPT !.currentValidationIndex = cap[t].data.index + 1,
                              !.validationState = "none"]
    /\ SetCap(t, IdleCap)
    /\ mem' = [mem EXCEPT ![t].validationInProgress = FALSE, ![t].stuckCounter = 0]
    /\ hist' = TickActed(t)
    /\ UNCHANGED <<page, scr, uop, now>>

\* doValidationStep: safeSet({validationState: 'imported'})
doValidationStepImported(t) ==
    /\ cap[t].pc = "v_import_set"
    /\ store' = [store EXCEPT !.validationState = "imported"]
    /\ EndValidation(t)
    /\ hist' = TickActed(t)
    /\ UNCHANGED <<page, scr, uop, now>>

\* doValidationStep on the list: safeSet({validationState: null}), then the
\* step looks for the row
doValidationStepReset(t, found, controls) ==
    /\ cap[t].pc = "v_reset_set"
    /\ store' = [store EXCEPT !.validationState = "none"]
    /\ ValidationList(t, cap[t], found, controls)
    /\ UNCHANGED now

\* doValidationStep on the list: safeSet of the queue it has built (the row
\* was found, or the item went to the back)
doValidationStepQueue(t) ==
    /\ cap[t].pc = "v_queue_set"
    /\ store' = [store EXCEPT !.validationQueue = cap[t].vq,
                              !.validationState = "none"]
    /\ SetCap(t, IdleCap)
    /\ mem' = [mem EXCEPT ![t].validationInProgress = FALSE, ![t].stuckCounter = 0]
    /\ hist' = TickActed(t)
    /\ UNCHANGED <<page, scr, uop, now>>

\* doValidationStep on the list: safeSet of the queue with the search marked
doValidationStepSearched(t) ==
    /\ cap[t].pc = "v_search_set"
    /\ store' = [store EXCEPT !.validationQueue = cap[t].vq,
                              !.validationState = "searching"]
    /\ EndValidation(t)
    /\ hist' = TickActed(t)
    /\ UNCHANGED <<page, scr, uop, now>>

\* doValidationStep on the list: no remaining item was found; safeSet of the
\* queue with the pause and the intervention
doValidationStepAllStuck(t) ==
    /\ cap[t].pc = "v_stuck_set"
    /\ store' = [store EXCEPT !.validationQueue = cap[t].vq,
                              !.validationState = "none",
                              !.isPaused = TRUE,
                              !.interventionRequired = TRUE]
    /\ EndValidation(t)
    /\ hist' = [hist EXCEPT !.halted = TRUE]
    /\ UNCHANGED <<page, scr, uop, now>>

\* doValidationStep after a contribution below the minimum was seen:
\* needsWageEdit is read and the item pushed
doValidationStepCtb(t) ==
    /\ cap[t].pc = "v_ctb_get"
    /\ SetCap(t, [cap[t] EXCEPT
            !.pc = "v_ctb_set",
            !.wq = Append(store.needsWageEdit,
                          CtbItem(cap[t].data.er, page[t].employees))])
    /\ UNCHANGED <<store, mem, page, scr, uop, now, hist>>

\* doValidationStep: safeSet({needsWageEdit})
doValidationStepCtbSave(t) ==
    /\ cap[t].pc = "v_ctb_set"
    /\ store' = [store EXCEPT !.needsWageEdit = cap[t].wq]
    /\ SetCap(t, [cap[t] EXCEPT !.pc = "v_ctbq_set"])
    /\ hist' = TickActed(t)
    /\ UNCHANGED <<mem, page, scr, uop, now>>

\* doValidationStep: the item is taken out of the queue the step has read,
\* the queue is written and the tab navigates to the list
doValidationStepCtbQueue(t) ==
    /\ cap[t].pc = "v_ctbq_set"
    /\ store' = [store EXCEPT
                    !.validationQueue = RemoveAt(cap[t].vq, cap[t].data.index),
                    !.validationState = "none"]
    /\ Navigate(t, "unprocessed")
    /\ hist' = TickActed(t)
    /\ UNCHANGED now

\* doValidationStep: safeSet({validationState: 'ctb_checked'}), then the
\* step looks for the submit button
doValidationStepChecked(t, found, controls) ==
    /\ cap[t].pc = "v_checked_set"
    /\ store' = [store EXCEPT !.validationState = "ctb_checked"]
    /\ ValidationEntry(t, cap[t], found, controls)
    /\ UNCHANGED now

\* doValidationStep: the submission is recorded, then submit is clicked
doValidationStepSubmit(t) ==
    /\ cap[t].pc = "v_submit_set"
    /\ store' = [store EXCEPT !.validationState = "submitted_awaiting",
                              !.validationSubmitTime = cap[t].submitTime]
    /\ page' = [page EXCEPT ![t].submitted = TRUE]
    /\ EndValidation(t)
    /\ hist' = TickActed(t)
    /\ UNCHANGED <<scr, uop, now>>

\* advanceValidation: its safeGet resolves
advanceValidation(t) ==
    /\ cap[t].pc = "va_get"
    /\ SetCap(t, [cap[t] EXCEPT !.pc = "va_set",
                                !.adv.results = store.validationResults])
    /\ UNCHANGED <<store, mem, page, scr, uop, now, hist>>

\* safeSet of advanceValidation, were a failure to raise the intervention flag
ApplyValidationHalts(s, er, result, validatedList, failedList, index, message, results) ==
    [s EXCEPT
        !.validationResults =
            [results EXCEPT ![er] = [result |-> result, message |-> message]],
        !.validatedErs = IF result = "submitted" THEN Append(validatedList, er) ELSE @,
        !.validationFailedErs = IF result = "submitted" THEN @ ELSE Append(failedList, er),
        !.currentValidationIndex = index + 1,
        !.interventionRequired = (result # "submitted")]

\* safeSet of advanceValidation
ApplyValidation(s, er, result, validatedList, failedList, index, message, results) ==
    [s EXCEPT
        !.validationResults =
            [results EXCEPT ![er] = [result |-> result, message |-> message]],
        !.validatedErs = IF result = "submitted" THEN Append(validatedList, er) ELSE @,
        !.validationFailedErs = IF result = "submitted" THEN @ ELSE Append(failedList, er),
        !.currentValidationIndex = index + 1,
        !.interventionRequired = FALSE]

\* advanceValidation: its safeSet; after a dialog the step waits before it
\* navigates to the list, otherwise it navigates at once
advanceValidationSave(t) ==
    /\ cap[t].pc = "va_set"
    /\ store' = ApplyValidation(store, cap[t].data.er, cap[t].adv.result,
                                cap[t].data.captured, cap[t].data.failed,
                                cap[t].data.index, cap[t].adv.message,
                                cap[t].adv.results)
    /\ IF cap[t].why = "dialog"
       THEN /\ SetCap(t, [cap[t] EXCEPT !.pc = "v_nav"])
            /\ mem' = [mem EXCEPT ![t].stuckCounter = 0]
            /\ UNCHANGED <<page, scr, uop>>
       ELSE Navigate(t, "unprocessed")
    /\ hist' = TickActed(t)
    /\ UNCHANGED now

\* doValidationStep: back to the list after a dialog was handled
doValidationStepNavigate(t) ==
    /\ cap[t].pc = "v_nav"
    /\ Navigate(t, "unprocessed")
    /\ hist' = TickActed(t)
    /\ UNCHANGED <<store, now>>

\* the dialogs the portal answers a click on submit with
ValidationDialogs == {"consent", "success", "error_other"}

ValidationDialogAppears(t, d) ==
    /\ mem[t].loaded
    /\ page[t].url = "data_entry" /\ page[t].submitted
    /\ page[t].dialog = "none"
    /\ page' = [page EXCEPT ![t].dialog = d]
    /\ UNCHANGED <<store, mem, scr, cap, uop, now, hist>>

\* time passes beyond the response timeout while the answer to a submission
\* is awaited; a step in flight takes far less than the timeout
ValidationTimeout ==
    /\ store.validationState = "submitted_awaiting" /\ store.validationSubmitTime > 0
    /\ \A t \in Tabs : cap[t].pc = "idle" /\ uop[t].pc = "idle"
    /\ now - store.validationSubmitTime <= RESPONSE_TIMEOUT_MS
    /\ now' = now + RESPONSE_TIMEOUT_MS + 1
    /\ UNCHANGED <<store, mem, page, scr, cap, uop, hist>>

(***************************************************************************)
(* The scraping phase on one surface: a batch started from the popup,      *)
(* scraped by tab 1 while its user edits the scraped records.              *)
(***************************************************************************)
\* the tab the one-surface specifications follow: the first one
ScrapeTab == CHOOSE t \in Tabs : \A u \in Tabs : t <= u

\* the texts typed into the popup: employer numbers being interchangeable, the
\* first 9-digit token is employer 1
Batches ==
    {lines \in SeqsUpTo(Tokens, MaxBatch) :
        validErs(lines) # <<>> => validErs(lines)[1] = 1}

ScrapeNext ==
    \/ \E lines \in Batches, proceed \in BOOLEAN :
            PopupGo(ScrapeTab, lines, proceed)
    \/ runAutomation(ScrapeTab)
    \/ \E i \in Slots : runScrapingLoop(ScrapeTab, i)
    \/ \E i \in Slots : runScrapingLoopChecks(ScrapeTab, i)
    \/ \E i \in Slots, fieldReady \in BOOLEAN : doScrapingStep(ScrapeTab, i, fieldReady)
    \/ \E i \in Slots : doScrapingStepComplete(ScrapeTab, i)
    \/ \E i \in Slots, hasButton \in BOOLEAN : clearAndSearchER(ScrapeTab, i, hasButton)
    \/ \E i \in Slots : clearAndSearchERFinally(ScrapeTab, i)
    \/ \E rows \in RowSets \cup {<<>>} : SearchResults(ScrapeTab, rows)
    \/ \E i \in Slots : extractDataFromTable(ScrapeTab, i)
    \/ \E i \in Slots : extractDataFromTableSave(ScrapeTab, i)
    \/ \E i \in Slots : proceedToNextScrape(ScrapeTab, i)
    \/ \E i \in Slots : proceedToNextScrapeSave(ScrapeTab, i)
    \/ \E er \in Tokens, lf \in Amounts, amt \in Amounts : addManualER(ScrapeTab, er, lf, amt)
    \/ \E er \in ERs, lf \in Amounts, amt \in Amounts : saveScrapedRecord(ScrapeTab, er, lf, amt)
    \/ \E er \in ERs : deleteScrapedRecord(ScrapeTab, er)
    \/ saveScrapedResults(ScrapeTab)

SpecScrape == Init /\ [][ScrapeNext]_vars

(***************************************************************************)
(* The capture phase on one surface: a batch of NumERs employers is        *)
(* scraped by tab 1 without interference, then its user starts the         *)
(* capture and may pause, resume, skip and stop while the loop runs.       *)
(***************************************************************************)
\* the batch typed into the popup: every employer number, in order
FullBatch == [k \in 1..NumERs |-> k]

\* the report's answer for an employer with one NORMAL row of the prior period
CleanRows == <<Row("P1", "NORMAL", 1, 1, FALSE)>>

\* the scraping of a batch, one callback at a time
ScrapeQuietly(t) ==
    \/ runAutomation(t)
    \/ runScrapingLoop(t, 1)
    \/ runScrapingLoopChecks(t, 1)
    \/ doScrapingStep(t, 1, TRUE)
    \/ doScrapingStepComplete(t, 1)
    \/ clearAndSearchER(t, 1, TRUE)
    \/ clearAndSearchERFinally(t, 1)
    \/ SearchResults(t, CleanRows)
    \/ extractDataFromTable(t, 1)
    \/ extractDataFromTableSave(t, 1)
    \/ proceedToNextScrape(t, 1)
    \/ proceedToNextScrapeSave(t, 1)

\* the capture loop of tab t on a page whose controls are found or not, as
\* `found` allows
CaptureLoop(t, found) ==
    \/ handleCapturePhase(t)
    \/ \E closeBtn \in found, controls \in found : doCaptureStep(t, closeBtn, controls)
    \/ doCaptureStepIntervention(t)
    \/ \E valueTook \in found : doCaptureStepEmployer(t, valueTook)
    \/ doCaptureStepFill(t, TRUE)
    \/ doCaptureStepSubmit(t)
    \/ advanceToNextER(t)
    \/ advanceToNextERSave(t)
    \/ advanceToNextERNavigate(t)

CaptureNext ==
    \/ PopupGo(ScrapeTab, FullBatch, TRUE)
    \/ ScrapeQuietly(ScrapeTab)
    \/ startCapturePhase(ScrapeTab)
    \/ startCapturePhaseSave(ScrapeTab)
    \/ CaptureLoop(ScrapeTab, BOOLEAN)
    \/ \E controls \in BOOLEAN : doCaptureStepRetry(ScrapeTab, controls)
    \/ \E d \in Dialogs : DialogAppears(ScrapeTab, d)
    \/ ResponseTimeout
    \/ updateDashboardUI(ScrapeTab)
    \/ togglePause(ScrapeTab)
    \/ dashSkip(ScrapeTab)
    \/ skipCurrentER(ScrapeTab)
    \/ skipAdvanceToNextER(ScrapeTab)
    \/ skipAdvanceToNextERSave(ScrapeTab)
    \/ skipAdvanceToNextERNavigate(ScrapeTab)
    \/ dashStop(ScrapeTab)
    \/ dashStopSave(ScrapeTab)
    \/ dashStopReload(ScrapeTab)

SpecCapture == Init /\ [][CaptureNext]_vars

(***************************************************************************)
(* The wage edit phase on one surface.  The validation loop has moved      *)
(* every report of the batch to needsWageEdit (its total-contribution      *)
(* branch takes the item out of validationQueue and leaves the phase       *)
(* VALIDATION); the user of tab 1 starts the wage edits from its           *)
(* dashboard and may pause, resume and stop while the loop runs.           *)
(***************************************************************************)
WageEditInit ==
    /\ store = [InitStore EXCEPT
                    !.phase = "VALIDATION",
                    !.automationTabId = ScrapeTab,
                    !.capturedErs = FullBatch,
                    !.needsWageEdit = [k \in 1..NumERs |-> WageItem(k)]]
    /\ mem = [t \in Tabs |->
                IF t = ScrapeTab
                THEN [InitMem EXCEPT !.dashboard = TRUE, !.validationInterval = TRUE]
                ELSE InitMem]
    /\ page = [t \in Tabs |->
                IF t = ScrapeTab THEN [InitPage EXCEPT !.url = "unprocessed"] ELSE InitPage]
    /\ scr = [t \in Tabs |-> [i \in Slots |-> IdleSlot]]
    /\ cap = [t \in Tabs |-> IdleCap]
    /\ uop = [t \in Tabs |-> IdleOp]
    /\ now = 1
    /\ hist = InitHist

WageEditNext ==
    \/ startWageEditPhase(ScrapeTab)
    \/ startWageEditPhaseSave(ScrapeTab)
    \/ runAutomation(ScrapeTab)
    \/ runWageEditLoop(ScrapeTab)
    \/ \E found \in BOOLEAN, controls \in BOOLEAN : doWageEditStep(ScrapeTab, found, controls)
    \/ doWageEditStepFound(ScrapeTab)
    \/ doWageEditStepSearched(ScrapeTab)
    \/ advanceWageEdit(ScrapeTab)
    \/ advanceWageEditSave(ScrapeTab)
    \/ doWageEditStepComplete(ScrapeTab)
    \/ doWageEditStepCompleteSave(ScrapeTab)
    \/ WageDialogAppears(ScrapeTab, "unknown")
    \/ togglePause(ScrapeTab)
    \/ dashStop(ScrapeTab)
    \/ dashStopSave(ScrapeTab)
    \/ dashStopReload(ScrapeTab)

SpecWageEdit == WageEditInit /\ [][WageEditNext]_vars

(***************************************************************************)
(* Several surfaces: one tab after the other is made the automation tab    *)
(* from the popup and scrapes one employer; when a scraping has finished   *)
(* the user may start the capture from a dashboard, and stop it.           *)
(***************************************************************************)
\* the popup is used on the tabs in turn
NextPopupGo(t) ==
    /\ \A u \in Tabs : u < t => hist.runs[u] > 0
    /\ PopupGo(t, <<1>>, TRUE)

\* the user starts the capture when a scraping has finished
IdleStartCapture(t) == store.phase = "IDLE" /\ startCapturePhase(t)

\* the user stops a running capture
CaptureStop(t) == store.phase = "CAPTURE" /\ dashStop(t)

TabsNext ==
    \E t \in Tabs :
        \/ NextPopupGo(t)
        \/ ScrapeQuietly(t)
        \/ IdleStartCapture(t)
        \/ startCapturePhaseSave(t)
        \/ CaptureLoop(t, {TRUE})
        \/ \E d \in {"success", "unknown"} : DialogAppears(t, d)
        \/ updateDashboardUI(t)
        \/ CaptureStop(t)
        \/ dashStopSave(t)
        \/ dashStopReload(t)

SpecTabs == Init /\ [][TabsNext]_vars

(***************************************************************************)
(* The population of the capture queue.  A scraping has finished and left  *)
(* up to NumERs records, each extracted from one of the answers the        *)
(* report can give; the user of tab 1 may edit a record on the dashboard   *)
(* and starts the capture.                                                 *)
(***************************************************************************)
\* answers of the report: a clean employer, one with no row of the prior
\* period, one with a zero count, one that captures for itself, one whose
\* target period is already there, and one with no NORMAL row
ReportAnswers ==
    { CleanRows,
      <<Row("P2", "NORMAL", 1, 1, FALSE)>>,
      <<Row("P1", "NORMAL", 0, 1, FALSE)>>,
      <<Row("P1", "NORMAL", 1, 1, TRUE)>>,
      <<Row("TARGET", "NORMAL", 1, 1, FALSE), Row("P1", "NORMAL", 1, 1, FALSE)>>,
      <<Row("P1", "ARREARS", 1, 1, FALSE)>> }

\* the lists of records a finished scraping can leave, one record per number
ScrapedLists ==
    {recs \in SeqsUpTo({ExtractRecord(er, rows) : er \in ERs, rows \in ReportAnswers},
                       NumERs) :
        \A k, m \in DOMAIN recs : recs[k].er = recs[m].er => k = m}

EligibilityInit ==
    /\ \E recs \in ScrapedLists :
          store = [InitStore EXCEPT !.automationTabId = ScrapeTab,
                                    !.scrapedResults = recs]
    /\ mem = [t \in Tabs |->
                IF t = ScrapeTab THEN [InitMem EXCEPT !.dashboard = TRUE] ELSE InitMem]
    /\ page = [t \in Tabs |->
                IF t = ScrapeTab THEN [InitPage EXCEPT !.url = "report"] ELSE InitPage]
    /\ scr = [t \in Tabs |-> [i \in Slots |-> IdleSlot]]
    /\ cap = [t \in Tabs |-> IdleCap]
    /\ uop = [t \in Tabs |-> IdleOp]
    /\ now = 1
    /\ hist = [InitHist EXCEPT !.scrapeDone = TRUE]

EligibilityNext ==
    \/ \E er \in ERs, lf \in Amounts, amt \in Amounts : saveScrapedRecord(ScrapeTab, er, lf, amt)
    \/ saveScrapedResults(ScrapeTab)
    \/ startCapturePhase(ScrapeTab)
    \/ startCapturePhaseSave(ScrapeTab)

SpecEligibility == EligibilityInit /\ [][EligibilityNext]_vars

(***************************************************************************)
(* The validation phase on one surface.  The user of tab 1 has started the *)
(* validation of a captured batch: startValidationPhase has written the    *)
(* queue and navigated to the unprocessed list.  The loop validates,       *)
(* routes reports with a contribution below the minimum to the wage edits, *)
(* which the user starts from the dashboard and which hand the reports     *)
(* back; the user resumes after an intervention.  The user starts the wage *)
(* edits between two ticks: the storage calls of a step and of the click   *)
(* handler follow one another within milliseconds and are answered in the  *)
(* order they were issued, the interval fires every 2000 ms.               *)
(***************************************************************************)
\* the employee tables the portal imports, contributions in cents: one with
\* every contribution at or above the minimum, one with an empty row and a
\* contribution below it
ImportedTables == {<<MIN_CTB, 10000>>, <<0, 4000>>}

\* the not-found count up to which the list is let fail to show a report
MaxNotFound == 4

ValidationInit ==
    /\ store = [InitStore EXCEPT
                    !.phase = "VALIDATION",
                    !.automationTabId = ScrapeTab,
                    !.capturedErs = FullBatch,
                    !.validationQueue = [k \in 1..NumERs |-> ValidationItem(k)]]
    /\ mem = [t \in Tabs |->
                IF t = ScrapeTab THEN [InitMem EXCEPT !.loaded = FALSE] ELSE InitMem]
    /\ page = [t \in Tabs |->
                IF t = ScrapeTab THEN [InitPage EXCEPT !.url = "unprocessed"] ELSE InitPage]
    /\ scr = [t \in Tabs |-> [i \in Slots |-> IdleSlot]]
    /\ cap = [t \in Tabs |-> IdleCap]
    /\ uop = [t \in Tabs |-> IdleOp]
    /\ now = 1
    /\ hist = InitHist

\* the list may fail to show the report that is looked for
ListMayFail(t) ==
    \A k \in DOMAIN store.validationQueue :
        store.validationQueue[k].notFoundCount < MaxNotFound

ValidationStepInputs(t) ==
    {in \in [found : BOOLEAN, controls : BOOLEAN] :
        (page[t].url = "unprocessed" /\ ~in.found) => ListMayFail(t)}

ValidationNext ==
    \/ runAutomation(ScrapeTab)
    \/ uop[ScrapeTab].pc = "idle" /\ runValidationLoop(ScrapeTab)
    \/ \E in \in ValidationStepInputs(ScrapeTab), employees \in ImportedTables :
          doValidationStep(ScrapeTab, in.found, in.controls, employees)
    \/ doValidationStepIntervention(ScrapeTab)
    \/ doValidationStepComplete(ScrapeTab)
    \/ doValidationStepSkipProcessed(ScrapeTab)
    \/ doValidationStepImported(ScrapeTab)
    \/ \E in \in ValidationStepInputs(ScrapeTab) :
          doValidationStepReset(ScrapeTab, in.found, in.controls)
    \/ doValidationStepQueue(ScrapeTab)
    \/ doValidationStepSearched(ScrapeTab)
    \/ doValidationStepAllStuck(ScrapeTab)
    \/ doValidationStepCtb(ScrapeTab)
    \/ doValidationStepCtbSave(ScrapeTab)
    \/ doValidationStepCtbQueue(ScrapeTab)
    \/ \E found \in BOOLEAN, controls \in BOOLEAN :
          doValidationStepChecked(ScrapeTab, found, controls)
    \/ doValidationStepSubmit(ScrapeTab)
    \/ advanceValidation(ScrapeTab)
    \/ advanceValidationSave(ScrapeTab)
    \/ doValidationStepNavigate(ScrapeTab)
    \/ \E d \in ValidationDialogs : ValidationDialogAppears(ScrapeTab, d)
    \/ ValidationTimeout
    \/ mem[ScrapeTab].isPaused /\ togglePause(ScrapeTab)
    \/ /\ store.needsWageEdit # <<>> /\ cap[ScrapeTab].pc = "idle"
       /\ startWageEditPhase(ScrapeTab)
    \/ startWageEditPhaseSave(ScrapeTab)
    \/ runWageEditLoop(ScrapeTab)
    \/ \E found \in BOOLEAN, controls \in BOOLEAN : doWageEditStep(ScrapeTab, found, controls)
    \/ doWageEditStepFound(ScrapeTab)
    \/ doWageEditStepSearched(ScrapeTab)
    \/ advanceWageEdit(ScrapeTab)
    \/ advanceWageEditSave(ScrapeTab)
    \/ doWageEditStepComplete(ScrapeTab)
    \/ doWageEditStepCompleteSave(ScrapeTab)

SpecValidation == ValidationInit /\ [][ValidationNext]_vars

(***************************************************************************)
(* The contribution check on one surface.  The first report of the queue   *)
(* has been opened and the previous month imported: the data entry page    *)
(* shows an employee table, validationState is 'imported' and the next     *)
(* tick checks the contributions, then routes the report to the wage edits *)
(* or submits it.                                                          *)
(***************************************************************************)
\* the contributions an employee table may hold, in cents
CtbValues == {0, 4000, MIN_CTB, 10000}

\* the rows of an employee table
MaxEmployees == 3

EmployeeTables == SeqsUpTo(CtbValues, MaxEmployees) \ {<<>>}

CtbInit ==
    /\ store = [InitStore EXCEPT
                    !.phase = "VALIDATION",
                    !.automationTabId = ScrapeTab,
                    !.capturedErs = FullBatch,
                    !.validationQueue = [k \in 1..NumERs |-> ValidationItem(k)],
                    !.validationState = "imported"]
    /\ mem = [t \in Tabs |->
                IF t = ScrapeTab
                THEN [InitMem EXCEPT !.dashboard = TRUE, !.validationInterval = TRUE]
                ELSE InitMem]
    /\ \E employees \in EmployeeTables :
          page = [t \in Tabs |->
                    IF t = ScrapeTab
                    THEN [InitPage EXCEPT !.url = "data_entry", !.formEr = 1,
                                          !.employees = employees]
                    ELSE InitPage]
    /\ scr = [t \in Tabs |-> [i \in Slots |-> IdleSlot]]
    /\ cap = [t \in Tabs |-> IdleCap]
    /\ uop = [t \in Tabs |-> IdleOp]
    /\ now = 1
    /\ hist = InitHist

CtbNext ==
    \/ runValidationLoop(ScrapeTab)
    \/ \E found \in BOOLEAN, controls \in BOOLEAN :
          doValidationStep(ScrapeTab, found, controls, <<>>)
    \/ doValidationStepCtb(ScrapeTab)
    \/ doValidationStepCtbSave(ScrapeTab)
    \/ doValidationStepCtbQueue(ScrapeTab)
    \/ \E found \in BOOLEAN, controls \in BOOLEAN :
          doValidationStepChecked(ScrapeTab, found, controls)
    \/ doValidationStepSubmit(ScrapeTab)
    \/ doValidationStepIntervention(ScrapeTab)
    \/ runAutomation(ScrapeTab)

SpecCtb == CtbInit /\ [][CtbNext]_vars

(***************************************************************************)
(* Properties of the scraping phase.                                       *)
(***************************************************************************)
\* the continuations of the scraping callback that are inside a branch which
\* drives the page or writes the store
ActingPcs == {"search", "search_wait", "x_get", "x_set", "p_get", "p_set", "done_set"}

\* C2: within one surface at most one step of a loop is in flight: no two
\* invocations of the scraping callback are at the same time inside a branch
\* that drives the page or writes the store.
C2_OneStepInFlight ==
    \A t \in Tabs : \A i, j \in Slots :
        (scr[t][i].pc \in ActingPcs /\ scr[t][j].pc \in ActingPcs) => i = j

\* C9: scrapedResults holds at most one record per employer number.
C9_OneRecordPerER ==
    \A k, m \in DOMAIN store.scrapedResults :
        store.scrapedResults[k].er = store.scrapedResults[m].er => k = m

\* a manual add and an extraction of the same number are both about to write
C9_Witness ==
    \E t \in Tabs, i \in Slots :
        /\ scr[t][i].pc = "x_set"
        /\ uop[t].pc = "set" /\ uop[t].op = "add"
        /\ ErsOf(scr[t][i].res) \cap ErsOf(uop[t].res) # {}
        /\ ErsOf(scr[t][i].res) \cap ErsOf(uop[t].res) \cap ErsOf(store.scrapedResults) = {}

\* C10: when scraping has finished and the user deleted nothing (and added
\* nothing by hand), the numbers in scrapedResults are exactly the batch's
\* deduplicated 9-digit numbers.
C10_ScrapedEqualsBatch ==
    (hist.scrapeDone /\ store.phase = "IDLE" /\ store.erQueue = <<>>
        /\ ~hist.deleted /\ hist.manual = {})
    => ErsOf(store.scrapedResults) = hist.batch

(***************************************************************************)
(* Properties of the capture phase.                                        *)
(***************************************************************************)
\* the tick of tab t is about to write the failure of the item it has seen
\* time out for the second time in a row
TimeoutFailurePending(t) ==
    /\ cap[t].pc = "adv_set" /\ cap[t].why = "timeout"
    /\ hist.timeouts = 2

\* C3: two consecutive response timeouts on one item fail it exactly once:
\* the second timeout is never answered by another retry, and the write that
\* follows it leaves the item once in the failed list, not in the captured
\* list, with the index one past the item's position.
C3_TwoTimeoutsFailOnce ==
    [][\A t \in Tabs :
          /\ (cap[t].pc = "get" /\ cap'[t].pc = "retry_set") => hist.timeouts = 0
          /\ (TimeoutFailurePending(t) /\ cap'[t].pc = "adv_nav")
             => /\ store'.currentCaptureIndex = cap[t].data.index + 1
                /\ Count(store'.failedErs, cap[t].data.er) = 1
                /\ cap[t].data.er \notin Range(store'.capturedErs)
                /\ store'.captureResults[cap[t].data.er].result = "failed"]_vars

\* the second timeout of an item is about to be written as its failure
C3_Witness == \E t \in Tabs : TimeoutFailurePending(t)

\* C5: from the moment a loop has flagged an intervention, and until a human
\* resumes, skips, stops or starts a phase, no tick drives a page or moves a
\* queue or an index.
C5_HaltedMeansNoTick == ~hist.acted

\* the document a stop leaves behind
Stopped(s) ==
    /\ s.phase = "IDLE"
    /\ s.erQueue = <<>> /\ s.captureQueue = <<>> /\ s.validationQueue = <<>>
    /\ s.wageEditQueue = <<>> /\ s.needsWageEdit = <<>>
    /\ ~s.interventionRequired

\* C6: a stop requested while a step is in flight leaves the stopped
\* document: once the stop has taken effect, and until the user starts a
\* phase again, the phase is IDLE, the queues are empty and no intervention
\* is flagged.
C6_StopIsFinal == hist.stopped => Stopped(store)

\* the outcome the capture lists record for an employer
Outcome(s, er) ==
    IF er \in Range(s.capturedErs) THEN "captured"
    ELSE IF er \in Range(s.failedErs) THEN "failed"
    ELSE "none"

\* C8: within a run of the capture phase an employer recorded as captured or
\* as failed keeps that outcome, and the index never moves back.
C8_StatusMonotonic ==
    [][(hist'.starts = hist.starts /\ hist'.runs = hist.runs)
          => /\ \A er \in ERs :
                   Outcome(store, er) # "none"
                   => Outcome(store', er) = Outcome(store, er)
             /\ store'.currentCaptureIndex >= store.currentCaptureIndex]_vars

\* C4: in every loop that drives the remote page a dialog of unknown type
\* halts the tick that observes it: no tick that read the document while such
\* a dialog was on its page goes on to drive the page, move a queue index or
\* record an item's result.
C4_UnknownDialogHalts == ~hist.blind

(***************************************************************************)
(* Properties of the election of the automation tab and of the stop.       *)
(***************************************************************************)
\* C1: only the automation tab executes ticks: a callback that is past its
\* phase checks, driving the page or writing the store, began in a tab that
\* was the elected one at that moment.
C1_OnlyElectedTabExecutes ==
    \A t \in Tabs :
        /\ \A i \in Slots : scr[t][i].pc \in ActingPcs => scr[t][i].own
        /\ cap[t].pc \notin {"idle", "get"} => cap[t].own

\* no interval callback is scheduled in a document with these variables
NoTicks(m) ==
    /\ ~m.scrapingInterval /\ ~m.captureInterval
    /\ ~m.validationInterval /\ ~m.wageEditInterval

\* C7: a stop sets the phase to IDLE, empties the five queues and clears the
\* intervention flag when its write takes effect, and when its handler ends,
\* nothing having been started since, no tick of any loop is scheduled.
C7_StopResetsAll ==
    [][\A t \in Tabs :
          /\ (uop[t].pc = "stop_set" /\ uop'[t].pc = "stop_reload")
                => Stopped(store')
          /\ (uop[t].pc = "stop_reload" /\ uop'[t].pc = "idle" /\ hist.stopped)
                => \A u \in Tabs : NoTicks(mem'[u])]_vars

(***************************************************************************)
(* Capture outcomes.                                                       *)
(***************************************************************************)
\* the step of tab t has dismissed the dialog it classified and its
\* advanceToNextER is about to write
DialogOutcomePending(t) ==
    cap[t].pc = "adv_set" /\ cap[t].why = "dialog"

TimeoutFailureWrite(t, message) ==
    (TimeoutFailurePending(t) /\ cap'[t].pc = "adv_nav")
    => LET rec == store'.captureResults[cap[t].data.er]
       IN  /\ rec.result = "failed" /\ rec.message = message
           /\ store'.currentCaptureIndex = cap[t].data.index + 1
           /\ store'.retryCount = 0 /\ ~store'.awaitingResponse

\* after that write the step (no click handler's reload and no new batch's
\* navigation coming first) sends the tab to the employer page unless the
\* item was the last of the queue
TimeoutFailureLeaves(t) ==
    (cap[t].pc = "adv_nav" /\ cap[t].why = "timeout" /\ ~cap[t].adv.last
        /\ cap'[t].pc = "idle" /\ uop' = uop /\ hist'.runs = hist.runs)
    => page'[t].url = "employer"

\* C12 as stated: after the second consecutive timeout the item's recorded
\* result is failed with the message "no response after retry", and the next
\* tick starts on the next item of the queue.
C12_FailedWithMessage ==
    [][\A t \in Tabs :
          /\ TimeoutFailureWrite(t, "no response after retry")
          /\ TimeoutFailureLeaves(t)]_vars

\* C12, amended: after the second consecutive timeout the item's recorded
\* result is failed with an empty message (advanceToNextER is called without
\* one; the words "no response after retry" are the dashboard's title for the
\* result failed), the index is one past the item with the retry count and
\* the outstanding flag cleared, and the tab leaves for the employer page, so
\* that the next tick starts on the next item of the queue.
C12_FailedAndNext ==
    [][\A t \in Tabs :
          /\ TimeoutFailureWrite(t, "")
          /\ TimeoutFailureLeaves(t)]_vars

C12_Witness ==
    \E t \in Tabs :
        /\ cap[t].pc = "adv_nav" /\ cap[t].why = "timeout" /\ ~cap[t].adv.last
        /\ store.captureResults[cap[t].data.er].result = "failed"

(***************************************************************************)
(* Capture queue eligibility.                                              *)
(***************************************************************************)
\* the count and the amount of a scraped record: those of its first NORMAL
\* row of the prior period, 0 when it has none
RecordCount(res) ==
    IF FindNormal(res.p1Records) = 0 THEN 0
    ELSE res.p1Records[FindNormal(res.p1Records)].lf

RecordAmount(res) ==
    IF FindNormal(res.p1Records) = 0 THEN 0
    ELSE res.p1Records[FindNormal(res.p1Records)].amt

\* a record with none of the three error flags, a positive count and a
\* positive amount
Unflagged(res) ==
    /\ ~res.continuityError /\ ~res.zeroCrError /\ ~res.isSelfCapture
    /\ RecordCount(res) > 0 /\ RecordAmount(res) > 0

\* startCapturePhase of tab t writes the queue in this step
QueuePopulated(t) ==
    /\ uop[t].pc = "start" /\ uop[t].op = "capture"
    /\ store'.phase = "CAPTURE" /\ store'.captureQueue # store.captureQueue

\* the queue that holds exactly the records members, in their order and with
\* their counts and amounts
QueueOf(members) ==
    [k \in DOMAIN members |->
        [er |-> members[k].er, lf |-> RecordCount(members[k]),
         amt |-> RecordAmount(members[k])]]

\* a record that is not already captured for the target period and is
\* unflagged
NotCapturedUnflagged(res) == ~res.alreadyCaptured /\ Unflagged(res)

\* C13 as stated: the queue written at population holds exactly the scraped
\* records with no error flag (continuity, zero value, self capture), a
\* positive count and a positive amount.
C13_EligibleExactly ==
    [][\A t \in Tabs : QueuePopulated(t)
          => store'.captureQueue =
                QueueOf(SelectSeq(store.scrapedResults, Unflagged))]_vars

\* C13, amended: the queue written at population holds exactly the scraped
\* records that are not already captured for the target period, have no
\* error flag (continuity, zero value, self capture), a positive count and a
\* positive amount, as the records are at that moment: a record edited to
\* valid values before the start is a member.
C13_EligibleNotCaptured ==
    [][\A t \in Tabs :
          QueuePopulated(t)
          => store'.captureQueue =
                QueueOf(SelectSeq(store.scrapedResults, NotCapturedUnflagged))]_vars

\* the capture is about to be started on two records, one of them edited
\* and eligible since, the other not eligible
C13_Witness ==
    \E t \in Tabs :
        /\ uop[t].pc = "start" /\ uop[t].op = "capture"
        /\ \E k, m \in DOMAIN store.scrapedResults :
              /\ Unflagged(store.scrapedResults[k])
              /\ ~store.scrapedResults[k].alreadyCaptured
              /\ \E j \in DOMAIN store.scrapedResults[k].p1Records :
                    store.scrapedResults[k].p1Records[j].period = "EDITED"
              /\ ~Unflagged(store.scrapedResults[m])

(***************************************************************************)
(* Properties of the validation phase.                                     *)
(***************************************************************************)
\* the write that ends a step in which the list did not show the report
NotFoundWrite(t) ==
    /\ cap[t].pc \in {"v_queue_set", "v_stuck_set"} /\ cap[t].why = "not_found"
    /\ cap'[t].pc = "idle" /\ mem'[t].loaded

\* the entries of the validation queue of s that are neither validated nor
\* failed
Remaining(s) ==
    {k \in DOMAIN s.validationQueue :
        s.validationQueue[k].er \notin Range(s.validatedErs) \cup Range(s.validationFailedErs)}

\* C14: a not-found outcome on the list moves the item to the back of the
\* validation queue with its notFoundCount raised by one, and once every
\* remaining item (neither validated nor failed) has a notFoundCount of 3 or
\* more the loop raises an intervention, also when the queue holds items
\* that were validated or failed.
C14_NotFoundIntervention ==
    [][\A t \in Tabs :
          NotFoundWrite(t)
          => LET index == store.currentValidationIndex
                 item == store.validationQueue[index + 1]
                 last == store'.validationQueue[Len(store'.validationQueue)]
             IN  /\ last.er = item.er
                 /\ last.notFoundCount = item.notFoundCount + 1
                 /\ (\A k \in Remaining(store') :
                        store'.validationQueue[k].notFoundCount >= 3)
                    => store'.interventionRequired]_vars

\* the write of the validation queue that ends the routing of a report to
\* the wage edits (the step's own write: no click handler moves)
CtbRouted(t) == cap[t].pc = "v_ctbq_set" /\ cap'[t].pc = "idle" /\ uop' = uop

\* the validation step of tab t clicks submit
SubmitClicked(t) ==
    cap[t].pc = "v_submit_set" /\ ~page[t].submitted /\ page'[t].submitted

\* the write that ends the wage edits (the step's own write: no click
\* handler is under way on the tab)
WageEditCompleted(t) == cap[t].pc = "w_done_set" /\ cap'[t].pc = "idle" /\ uop' = uop

C16_AppendedToValidation ==
    [][\A t \in Tabs :
          WageEditCompleted(t)
          => /\ store'.validationQueue =
                   store.validationQueue \o
                   [k \in DOMAIN store.wageEditQueue |->
                       ValidationItem(store.wageEditQueue[k].er)]
             /\ store'.phase = "VALIDATION"
             /\ store'.wageEditQueue = <<>>
             /\ store'.needsWageEdit = <<>>]_vars

\* the wage edits end with a report left in the validation queue
C16_Witness ==
    \E t \in Tabs :
        /\ cap[t].pc = "w_done_set"
        /\ store.validationQueue # <<>> /\ store.wageEditQueue # <<>>

\* the sum, over the rows of an employee table, of the larger of the
\* contribution and the minimum
RECURSIVE SumMaxAll(_)
SumMaxAll(s) ==
    IF s = <<>> THEN 0 ELSE Max(Head(s), MIN_CTB) + SumMaxAll(Tail(s))

\* the same sum over the rows with a contribution above 0
RECURSIVE SumMaxPositive(_)
SumMaxPositive(s) ==
    IF s = <<>> THEN 0
    ELSE (IF Head(s) > 0 THEN Max(Head(s), MIN_CTB) ELSE 0) + SumMaxPositive(Tail(s))

\* the adjusted total of the table on the page of tab t is total(table),
\* and so is the one of the item the step is about to push on needsWageEdit
AdjustedTotalIs(t, total) ==
    /\ page[t].url = "data_entry"
       => calculateAdjustedTotal(page[t].employees).adjustedTotal = total
    /\ cap[t].pc = "v_ctb_set"
       => cap[t].wq[Len(cap[t].wq)].adjustedTotal = total

\* C17: the adjusted total calculateAdjustedTotal computes is the sum over
\* all rows of the employee table of max(contribution, MIN_CTB), rows with
\* a contribution of 0 included.
C17_SumOverAllRows ==
    \A t \in Tabs : AdjustedTotalIs(t, SumMaxAll(page[t].employees))

\* C17, amended: the adjusted total is the sum of max(contribution,
\* MIN_CTB) over the rows with a contribution above 0.
C17_SumOverPositiveRows ==
    \A t \in Tabs : AdjustedTotalIs(t, SumMaxPositive(page[t].employees))

\* an item is about to be pushed for a table with an empty row and a
\* contribution below the minimum
C17_Witness ==
    \E t \in Tabs :
        /\ cap[t].pc = "v_ctb_set"
        /\ 0 \in Range(page[t].employees)
        /\ \E k \in DOMAIN page[t].employees :
              page[t].employees[k] > 0 /\ page[t].employees[k] < MIN_CTB

\* every contribution of the table is at or above the minimum
AllAtLeastMinimum(employees) ==
    \A k \in DOMAIN employees : employees[k] >= MIN_CTB

\* the step of tab t checks the contributions of an imported table
CtbCheckStep(t) ==
    /\ cap[t].pc = "v_get" /\ cap'[t] # cap[t]
    /\ store.phase = "VALIDATION" /\ store.validationState = "imported"
    /\ page[t].url = "data_entry" /\ page[t].dialog = "none"
    /\ store.currentValidationIndex < Len(store.validationQueue)
    /\ store.validationQueue[store.currentValidationIndex + 1].er \notin
          Range(store.validatedErs) \cup Range(store.validationFailedErs)

\* C18: if every contribution is at or above the minimum the adjusted total
\* is the current total and the step creates no wage adjustment item but
\* goes on to the submission; an item is pushed on needsWageEdit only when
\* some contribution is below the minimum.
C18_ItemOnlyBelowMinimum ==
    [][/\ \A t \in Tabs :
            /\ (CtbCheckStep(t) /\ AllAtLeastMinimum(page[t].employees))
               => /\ cap'[t].pc = "v_checked_set"
                  /\ calculateAdjustedTotal(page[t].employees).adjustedTotal =
                        calculateAdjustedTotal(page[t].employees).currentTotal
                  /\ store'.needsWageEdit = store.needsWageEdit
            /\ (cap[t].pc = "v_checked_set" /\ cap'[t] # cap[t])
               => /\ store'.needsWageEdit = store.needsWageEdit
                  /\ cap'[t].pc \in {"v_submit_set", "v_int_set", "idle"}
       /\ Len(store'.needsWageEdit) > Len(store.needsWageEdit)
          => \E t \in Tabs :
                /\ cap[t].pc = "v_ctb_set"
                /\ \E k \in DOMAIN page[t].employees : page[t].employees[k] < MIN_CTB]_vars

\* the check has passed a table that holds the minimum itself, and the step
\* is about to submit
C18_Witness ==
    \E t \in Tabs :
        /\ cap[t].pc = "v_submit_set"
        /\ AllAtLeastMinimum(page[t].employees)
        /\ MIN_CTB \in Range(page[t].employees)

(***************************************************************************)
(* Properties of the phase.                                                *)
(***************************************************************************)
\* C19: every change of the stored phase is a transition of the state
\* machine: IDLE to SCRAPING, SCRAPING to IDLE, IDLE to CAPTURE, CAPTURE to
\* COMPLETE, COMPLETE to VALIDATION, VALIDATION to WAGE_EDIT, WAGE_EDIT to
\* VALIDATION, VALIDATION to COMPLETE, a new phase started from COMPLETE, or
\* any phase to IDLE by stop; no other change is reachable.
C19_PhaseTransitions ==
    [][store'.phase # store.phase
       => \/ store'.phase = "IDLE"
          \/ store.phase = "COMPLETE"
          \/ <<store.phase, store'.phase>> \in
                {<<"IDLE", "SCRAPING">>, <<"IDLE", "CAPTURE">>,
                 <<"CAPTURE", "COMPLETE">>, <<"VALIDATION", "WAGE_EDIT">>,
                 <<"WAGE_EDIT", "VALIDATION">>, <<"VALIDATION", "COMPLETE">>}]_vars

\* the Go button of the popup is used on some tab
GoClicked == \E t \in Tabs : hist'.runs[t] > hist.runs[t]

\* the start-capture handler of some tab comes to its end
CaptureStartEnds ==
    \E t \in Tabs : uop[t].pc = "start" /\ uop[t].op = "capture" /\ uop'[t].pc = "idle"

\* C20: a start operation invoked while a different phase, neither IDLE nor
\* COMPLETE, is active is rejected: it leaves the stored phase and the
\* queues as they are.
C20_StartRejected ==
    [][\/ GoClicked /\ store.phase \notin {"IDLE", "COMPLETE", "SCRAPING"}
       \/ CaptureStartEnds /\ store.phase \notin {"IDLE", "COMPLETE", "CAPTURE"}
       => /\ store'.phase = store.phase
          /\ store'.erQueue = store.erQueue
          /\ store'.captureQueue = store.captureQueue
          /\ store'.validationQueue = store.validationQueue
          /\ store'.wageEditQueue = store.wageEditQueue]_vars

(***************************************************************************)
(* The flags a start leaves behind.                                        *)
(***************************************************************************)
\* the write of a start handler of tab t (no tick of the tab is under way):
\* the handler ends with the tab leaving for the phase's page
StartWritten(t) ==
    /\ uop[t].pc = "start" /\ cap[t].pc = "idle"
    /\ uop'[t].pc = "idle" /\ ~mem'[t].loaded

\* C21: after every start operation (the popup's Go, the start of the
\* capture, of the wage edits) the persisted flags that halt ticking are
\* cleared: interventionRequired and isPaused are false whatever they were.
C21_StartClearsFlags ==
    [][GoClicked \/ (\E t \in Tabs : StartWritten(t))
       => ~store'.isPaused /\ ~store'.interventionRequired]_vars

(***************************************************************************)
(* Pausing in the middle of a form fill.                                   *)
(***************************************************************************)
\* the step of tab t is in the middle of a fill of the capture form
FillInProgress(t) == cap[t].pc \in {"fill", "submit_set"}

\* C22: while the pause flag is persisted, a step that is in the middle of a
\* fill of the capture form writes no further field and does not click the
\* submit control: no submission is recorded as outstanding.
C22_PauseStopsFill ==
    [][\A t \in Tabs :
          (FillInProgress(t) /\ store.isPaused)
          => /\ cap'[t].pc = "fill" => cap'[t].k = cap[t].k
             /\ page'[t].submitted => page[t].submitted
             /\ store'.awaitingResponse => store.awaitingResponse]_vars

(***************************************************************************)
(* What halts a phase.                                                     *)
(***************************************************************************)
\* the tick of tab t writes the failure of the item it has worked on (the
\* step's own write: no click handler moves and no new batch starts)
FailureWrite(t) ==
    /\ \/ cap[t].pc = "adv_set" /\ cap[t].adv.result \in {"failed", "error"}
       \/ cap[t].pc = "va_set" /\ cap[t].adv.result # "submitted"
       \/ cap[t].pc = "w_adv_set" /\ cap[t].adv.result # "updated"
    /\ cap'[t].pc # cap[t].pc
    /\ uop' = uop /\ hist'.runs = hist.runs

\* a step of a loop (not the pause button) sets a flag that halts the phase
HaltedByLoop ==
    /\ \/ store'.isPaused /\ ~store.isPaused
       \/ store'.interventionRequired /\ ~store.interventionRequired
    /\ hist'.clicks = hist.clicks

\* the tick of tab t writes the halt after a dialog of unknown type
HaltsOnUnknownDialog(t) == cap[t].pc \in {"int_set", "v_int_set"} /\ cap[t].blind

\* the tick of tab t writes the halt after every item left in the queue was
\* not found three times
HaltsOnSearchExhaustion(t) == cap[t].pc = "v_stuck_set"

\* the tick of tab t writes the halt because the import dialog does not list
\* the previous month
HaltsOnMissingMonth(t) ==
    cap[t].pc = "v_int_set" /\ ~cap[t].blind /\ cap[t].modal = "import"

\* the tick of tab t writes the halt because submit is disabled after the
\* import
HaltsOnSubmitDisabled(t) ==
    /\ cap[t].pc = "v_int_set" /\ ~cap[t].blind /\ cap[t].modal # "import"
    /\ page[t].url = "data_entry" /\ cap[t].k = 1

\* the write of a failure leaves the halting flags down and the loop's
\* index one past the item
FailureProceeds ==
    \A t \in Tabs :
        FailureWrite(t)
        => /\ store'.isPaused => store.isPaused
           /\ store'.interventionRequired => store.interventionRequired
           /\ cap[t].pc = "adv_set"
              => store'.currentCaptureIndex = cap[t].data.index + 1
           /\ cap[t].pc = "va_set"
              => store'.currentValidationIndex = cap[t].data.index + 1
           /\ cap[t].pc = "w_adv_set"
              => store'.currentWageEditIndex = cap[t].data.index + 1

\* C23 as stated: the write of an item's failure does not halt the phase
\* and moves on to the next item, and a loop halts the phase only for a
\* dialog of unknown type or when the search for every remaining item is
\* exhausted.
C23_OnlyUnknownOrExhaustion ==
    [][/\ FailureProceeds
       /\ HaltedByLoop
          => \E t \in Tabs : HaltsOnUnknownDialog(t) \/ HaltsOnSearchExhaustion(t)]_vars

\* C23, amended: the write of an item's failure does not halt the phase and
\* moves on to the next item, and a loop halts the phase only for a dialog
\* of unknown type, when the search for every remaining item is exhausted,
\* when the import dialog does not list the previous month, or when submit
\* is disabled after the import.
C23_HaltingConditions ==
    [][/\ FailureProceeds
       /\ HaltedByLoop
          => \E t \in Tabs :
                \/ HaltsOnUnknownDialog(t) \/ HaltsOnSearchExhaustion(t)
                \/ HaltsOnMissingMonth(t) \/ HaltsOnSubmitDisabled(t)]_vars

\* after the failure of one report was recorded the loop went on, and now
\* halts on the next one for a reason other than a dialog
C23_Witness ==
    /\ store.validationFailedErs # <<>>
    /\ \E t \in Tabs : HaltsOnMissingMonth(t) \/ HaltsOnSubmitDisabled(t)

(***************************************************************************)
(* The capture loop left to itself.  startCapturePhase has written the     *)
(* queue of a clean batch and sent tab 1 to the employer page; nobody      *)
(* pauses, skips or stops.  The page may at every tick lack its controls,  *)
(* refuse a value, or answer a submission with any dialog or with none.    *)
(* The interval keeps firing, storage calls and waits resolve, pages load, *)
(* and time passes: whenever a response is awaited again and again between *)
(* ticks, the timeout is eventually exceeded.                              *)
(***************************************************************************)
CaptureLiveInit ==
    /\ LET scraped == [k \in 1..NumERs |-> ExtractRecord(k, CleanRows)]
       IN  store = [InitStore EXCEPT
                       !.phase = "CAPTURE",
                       !.automationTabId = ScrapeTab,
                       !.scrapedResults = scraped,
                       !.captureQueue = BuildCaptureQueue(scraped)]
    /\ mem = [t \in Tabs |->
                IF t = ScrapeTab THEN [InitMem EXCEPT !.loaded = FALSE] ELSE InitMem]
    /\ page = [t \in Tabs |->
                IF t = ScrapeTab THEN [InitPage EXCEPT !.url = "employer"] ELSE InitPage]
    /\ scr = [t \in Tabs |-> [i \in Slots |-> IdleSlot]]
    /\ cap = [t \in Tabs |-> IdleCap]
    /\ uop = [t \in Tabs |-> IdleOp]
    /\ now = 1
    /\ hist = [InitHist EXCEPT !.scrapeDone = TRUE]

\* what the script does on its own
CaptureLiveTick ==
    \/ runAutomation(ScrapeTab)
    \/ CaptureLoop(ScrapeTab, BOOLEAN)
    \/ \E controls \in BOOLEAN : doCaptureStepRetry(ScrapeTab, controls)

CaptureLiveNext ==
    \/ CaptureLiveTick
    \/ \E d \in Dialogs : DialogAppears(ScrapeTab, d)
    \/ ResponseTimeout

SpecCaptureLive ==
    /\ CaptureLiveInit /\ [][CaptureLiveNext]_vars
    /\ WF_vars(CaptureLiveTick)
    /\ SF_vars(ResponseTimeout)

\* C24: the capture loop cannot hang on one item: whatever the remote page
\* does, while nobody pauses and unless an intervention is asked for, every
\* item of the queue becomes terminal and the phase reaches COMPLETE.
C24_CaptureCompletes == <>(store.phase = "COMPLETE" \/ store.interventionRequired)

(***************************************************************************)
(* Timeouts of a submission.                                               *)
(***************************************************************************)
\* the tick of tab t, having read the store, decides to fail its item
\* because no dialog answered the submission in time
FailsForTimeout(t) ==
    /\ cap[t].pc \in {"get", "v_get"}
    /\ cap'[t].pc \in {"adv_get", "va_get"} /\ cap'[t].why = "timeout"

\* C25: in the capture and in the validation loop a timeout is retried once
\* before the item is failed: a tick fails an item for a timeout only when
\* the store records that the submission was already retried.
C25_TimeoutRetriedOnce ==
    [][\A t \in Tabs : FailsForTimeout(t) => store.retryCount >= 1]_vars

(***************************************************************************)
(* Reloads between ticks.  The capture loop runs as above, the submit      *)
(* button may be found disabled, and the user may reload the automation    *)
(* tab whenever no step is in flight: the document is replaced, the        *)
(* script's variables start from their initial values and runAutomation    *)
(* reads the store again.                                                  *)
(***************************************************************************)
\* the user reloads tab t between two ticks
Reload(t) ==
    /\ mem[t].loaded
    /\ cap[t].pc = "idle" /\ uop[t].pc = "idle"
    /\ store.phase = "CAPTURE"
    /\ Navigate(t, page[t].url)
    /\ UNCHANGED <<store, now, hist>>

ReloadNext ==
    \/ CaptureLiveTick
    \/ \E submitEnabled \in BOOLEAN : doCaptureStepFill(ScrapeTab, submitEnabled)
    \/ \E d \in Dialogs : DialogAppears(ScrapeTab, d)
    \/ ResponseTimeout
    \/ Reload(ScrapeTab)

SpecReload == CaptureLiveInit /\ [][ReloadNext]_vars

\* C26: a reload of the automation tab between two ticks leaves what the
\* next tick acts on as it was: the store, with queue, index, outstanding
\* submission and its time, retry count and pause flag, and the stuck
\* counter.
C26_ReloadKeepsState ==
    [][\A t \in Tabs :
          Reload(t)
          => /\ store' = store
             /\ mem'[t].stuckCounter = mem[t].stuckCounter]_vars

(***************************************************************************)
(* The classification of dialogs.  What the two classifiers look at in the *)
(* document is a record of observations: consent (a visible .custom-alert  *)
(* with the warning icon and a title about the submission), receiptHeader  *)
(* (the acknowledgement header), errorIcon and successIcon, btnError and   *)
(* btnSuccess, textSuccess and textError (the known phrases), and visible  *)
(* (some alert container is displayed).                                    *)
(***************************************************************************)
\* the documents: one visible dialog with any of the observations, or none
ModalDoms ==
    {dom \in [consent : BOOLEAN, receiptHeader : BOOLEAN,
              errorIcon : BOOLEAN, successIcon : BOOLEAN,
              btnError : BOOLEAN, btnSuccess : BOOLEAN,
              textSuccess : BOOLEAN, textError : BOOLEAN, visible : BOOLEAN] :
        ~dom.visible =>
            /\ ~dom.consent /\ ~dom.receiptHeader
            /\ ~dom.errorIcon /\ ~dom.successIcon
            /\ ~dom.btnError /\ ~dom.btnSuccess
            /\ ~dom.textSuccess /\ ~dom.textError}

\* detectModalState of the capture loop, check by check
detectModalStateOf(dom) ==
    IF dom.receiptHeader THEN "receipt"
    ELSE IF dom.errorIcon THEN "error"
    ELSE IF dom.successIcon THEN "success"
    ELSE IF dom.btnError THEN "error"
    ELSE IF dom.btnSuccess THEN "success"
    ELSE IF dom.textSuccess THEN "success"
    ELSE IF dom.textError THEN "error"
    ELSE IF dom.visible THEN "unknown"
    ELSE "none"

\* PageOps.detectModal, were the success icon looked for before the error icon
detectModalSuccessFirst(dom) ==
    IF dom.consent THEN "consent"
    ELSE IF dom.receiptHeader THEN "receipt"
    ELSE IF dom.successIcon THEN "success"
    ELSE IF dom.errorIcon THEN "error"
    ELSE IF dom.btnError THEN "error"
    ELSE IF dom.btnSuccess THEN "success"
    ELSE IF dom.textSuccess THEN "success"
    ELSE IF dom.textError THEN "error"
    ELSE IF dom.visible THEN "unknown"
    ELSE "none"

\* PageOps.detectModal of the validation loop, check by check
detectModalOf(dom) ==
    IF dom.consent THEN "consent"
    ELSE IF dom.receiptHeader THEN "receipt"
    ELSE IF dom.errorIcon THEN "error"
    ELSE IF dom.successIcon THEN "success"
    ELSE IF dom.btnError THEN "error"
    ELSE IF dom.btnSuccess THEN "success"
    ELSE IF dom.textSuccess THEN "success"
    ELSE IF dom.textError THEN "error"
    ELSE IF dom.visible THEN "unknown"
    ELSE "none"

\* a document is on tab 1
ModalInit ==
    /\ store = InitStore
    /\ mem = [t \in Tabs |-> InitMem]
    /\ \E dom \in ModalDoms :
          page = [t \in Tabs |->
                    IF t = ScrapeTab THEN [InitPage EXCEPT !.dialog = dom] ELSE InitPage]
    /\ scr = [t \in Tabs |-> [i \in Slots |-> IdleSlot]]
    /\ cap = [t \in Tabs |-> IdleCap]
    /\ uop = [t \in Tabs |-> IdleOp]
    /\ now = 1
    /\ hist = InitHist

\* a capture step classifies what it sees
doCaptureStepDetect(t) ==
    /\ cap[t].pc = "idle"
    /\ SetCap(t, [IdleCap EXCEPT !.pc = "detected", !.why = "capture",
                                  !.modal = detectModalStateOf(page[t].dialog)])
    /\ UNCHANGED <<store, mem, page, scr, uop, now, hist>>

\* a validation step classifies what it sees
doValidationStepDetect(t) ==
    /\ cap[t].pc = "idle"
    /\ SetCap(t, [IdleCap EXCEPT !.pc = "detected", !.why = "validation",
                                  !.modal = detectModalOf(page[t].dialog)])
    /\ UNCHANGED <<store, mem, page, scr, uop, now, hist>>

ModalNext ==
    \/ doCaptureStepDetect(ScrapeTab)
    \/ doValidationStepDetect(ScrapeTab)

SpecModal == ModalInit /\ [][ModalNext]_vars

\* the types the priority order allows for a document: those of the first
\* level of the order at which the document has an observation; consent is a
\* level of the order for the loops in withConsent
FirstMatch(dom, withConsent) ==
    IF withConsent /\ dom.consent THEN {"consent"}
    ELSE IF dom.receiptHeader THEN {"receipt"}
    ELSE IF dom.errorIcon THEN {"error"}
    ELSE IF dom.successIcon THEN {"success"}
    ELSE IF dom.btnError \/ dom.btnSuccess
    THEN {"error" : x \in {1 : y \in {dom.btnError} \ {FALSE}}}
         \cup {"success" : x \in {1 : y \in {dom.btnSuccess} \ {FALSE}}}
    ELSE IF dom.textError \/ dom.textSuccess
    THEN {"error" : x \in {1 : y \in {dom.textError} \ {FALSE}}}
         \cup {"success" : x \in {1 : y \in {dom.textSuccess} \ {FALSE}}}
    ELSE IF dom.visible THEN {"unknown"}
    ELSE {"none"}

\* what a step that classified the document of its tab has found agrees
\* with the priority order, consent being a level for the loops in
\* consentLoops
Classified(consentLoops) ==
    \A t \in Tabs :
        cap[t].pc = "detected"
        => LET dom == page[t].dialog
           IN  /\ cap[t].modal \in FirstMatch(dom, cap[t].why \in consentLoops)
               /\ (cap[t].why \in consentLoops /\ dom.consent)
                  => cap[t].modal \notin {"success", "error"}
               /\ (dom.errorIcon /\ dom.successIcon /\ cap[t].modal # "consent"
                     /\ ~dom.receiptHeader)
                  => cap[t].modal = "error"

\* C27 as stated: in the capture and in the validation loop the type found
\* for a visible dialog is the first match in the order consent, receipt,
\* error marker, success marker, control, text, unknown; a dialog with the
\* consent affordance is never success or error, one with both markers is
\* error.
C27_PriorityOrder == Classified({"capture", "validation"})

\* C27, amended: the validation loop classifies in that order; the capture
\* loop classifies in the same order without the consent level, so that a
\* dialog with the consent affordance is there classified by its other
\* observations.
C27_PriorityOrderPerLoop == Classified({"validation"})

\* both loops have classified a dialog that has the consent affordance and
\* a success-styled control
C27_Witness ==
    \E t \in Tabs :
        /\ cap[t].pc = "detected"
        /\ page[t].dialog.consent /\ page[t].dialog.btnSuccess
        /\ ~page[t].dialog.receiptHeader /\ ~page[t].dialog.errorIcon

\* the write of advanceValidation for the item whose submission is awaited:
\* the step found a dialog, or the timeout elapsed on the page the item was
\* submitted on
OutcomeWrite(t, why, result) ==
    /\ cap[t].pc = "va_set" /\ cap'[t].pc # "va_set"
    /\ cap[t].why = why /\ cap[t].adv.result = result
    /\ why = "timeout" => page[t].url = "data_entry" /\ page[t].submitted
    /\ uop' = uop /\ hist'.runs = hist.runs

\* the write puts the item of the step at the end of one list, leaves the
\* other list alone, and the item was in neither list
LandsOnce(t, list) ==
    LET er == cap[t].data.er
        other == IF list = "validatedErs" THEN "validationFailedErs" ELSE "validatedErs"
    IN  /\ er \notin Range(store.validatedErs) \cup Range(store.validationFailedErs)
        /\ store'[list] = Append(store[list], er)
        /\ store'[other] = store[other]

MaxRows == 2

\* the rows a report can show: of the prior period or the one before, of
\* type NORMAL or not, with a count and an amount that are zero or not
TableRows ==
    {Row(period, type, lf, amt, FALSE) :
        period \in {"P1", "P2"}, type \in {"NORMAL", "ARREARS"},
        lf \in {0, 1}, amt \in {0, 1}}

ExtractInit ==
    /\ \E rows \in SeqsUpTo(TableRows, MaxRows) :
          page = [t \in Tabs |->
                    IF t = ScrapeTab
                    THEN [InitPage EXCEPT
                            !.url = "report",
                            !.table = IF rows = <<>> THEN NoTable
                                      ELSE [er |-> 1, rows |-> rows]]
                    ELSE InitPage]
    /\ store = [InitStore EXCEPT !.phase = "SCRAPING",
                                 !.automationTabId = ScrapeTab,
                                 !.erQueue = <<1>>,
                                 !.currentER = 1]
    /\ mem = [t \in Tabs |->
                IF t = ScrapeTab THEN [InitMem EXCEPT !.extractionInProgress = TRUE]
                ELSE InitMem]
    /\ scr = [t \in Tabs |-> [i \in Slots |->
                IF t = ScrapeTab /\ i = 1
                THEN [IdleSlot EXCEPT !.pc = "x_get", !.cur = 1, !.hold = TRUE]
                ELSE IdleSlot]]
    /\ cap = [t \in Tabs |-> IdleCap]
    /\ uop = [t \in Tabs |-> IdleOp]
    /\ now = 1
    /\ hist = InitHist

ExtractNext ==
    \/ extractDataFromTable(ScrapeTab, 1)
    \/ extractDataFromTableSave(ScrapeTab, 1)
    \/ proceedToNextScrape(ScrapeTab, 1)
    \/ proceedToNextScrapeSave(ScrapeTab, 1)

SpecExtract == ExtractInit /\ [][ExtractNext]_vars

\* the record just saved and the rows it was extracted from are both there
JustExtracted(t, k) ==
    /\ scr[t][1].pc = "p_get"
    /\ k \in DOMAIN store.scrapedResults
    /\ store.scrapedResults[k].er = store.currentER

C30_ZeroValueError ==
    \A k \in DOMAIN store.scrapedResults :
        LET p1 == store.scrapedResults[k].p1Records
        IN  store.scrapedResults[k].zeroCrError
            <=> \E j \in DOMAIN p1 :
                   /\ p1[j].type = "NORMAL"
                   /\ (p1[j].lf = 0 \/ p1[j].amt = 0)

(***************************************************************************)
(* The editing of scraped records while the scraping runs: the scraping    *)
(* phase on one surface, with the edits the handler rejects as well.       *)
(***************************************************************************)
\* parseInt(lfInput.value) || 0 and parseFloat(amtInput.value) || 0 of what
\* the user typed: a negative number, nothing or no number, a positive number
EditInputs == {0 - 1} \cup Amounts

\* saveScrapedRecord with a count or an amount that is not above 0: the
\* alert, and the handler returns before it reads the store
saveScrapedRecordRejected(t, er, newLf, newAmt) ==
    /\ UserMayClick(t)
    /\ newLf <= 0 \/ newAmt <= 0
    /\ hist' = [hist EXCEPT !.userOps = @ + 1]
    /\ UNCHANGED <<store, mem, page, scr, cap, uop, now>>

EditNext ==
    \/ ScrapeNext
    \/ \E er \in ERs, lf \in EditInputs, amt \in EditInputs :
          saveScrapedRecordRejected(ScrapeTab, er, lf, amt)

SpecEdit == Init /\ [][EditNext]_vars

\* the safeSet that ends an edit
EditWrite(t) ==
    /\ uop[t].pc = "set" /\ uop[t].op = "edit"
    /\ uop'[t].pc = "idle"

\* a click on save that the handler rejected
EditRejected == hist'.userOps = hist.userOps + 1 /\ uop' = uop

\* new is old after an edit with a positive count and amount
EditedAs(old, new) ==
    LET n == FindNormal(new.p1Records)
        m == FindNormal(old.p1Records)
    IN  /\ new.er = old.er
        /\ new.isSelfCapture = old.isSelfCapture
        /\ ~new.continuityError /\ ~new.zeroCrError
        /\ n # 0
        /\ new.p1Records[n].lf > 0 /\ new.p1Records[n].amt > 0
        /\ new.p1Records[n].period \in {"EDITED", "MANUAL"}
        /\ new.p1Records[n].period = "MANUAL"
           <=> (m # 0 /\ old.p1Records[m].period = "MANUAL")

\* C32: the write of an edit with a positive count and amount clears the
\* record's continuityError and zeroCrError, tags its NORMAL entry of the
\* preceding period EDITED (or keeps MANUAL), and leaves its self-capture
\* flag, its employer number and every other record of the stored list
\* unchanged; an edit with a count or amount that is not positive leaves the
\* store unchanged.
C32_EditFrame ==
    [][/\ \A t \in Tabs :
            EditWrite(t)
            => \E k \in DOMAIN store.scrapedResults :
                  /\ Len(store'.scrapedResults) = Len(store.scrapedResults)
                  /\ EditedAs(store.scrapedResults[k], store'.scrapedResults[k])
                  /\ \A j \in DOMAIN store.scrapedResults :
                        j # k => store'.scrapedResults[j] = store.scrapedResults[j]
       /\ EditRejected => store' = store]_vars

\* a step of an invocation that performs the search action
SearchStep(t, i) ==
    /\ scr[t][i].pc \in {"search", "search_wait"}
    /\ scr'[t][i] # scr[t][i]

\* the safeSet of an extraction: the list with the record it built
AppendStep(t, i) == scr[t][i].pc = "x_set" /\ scr'[t][i].pc = "p_get"

\* the safeSet of proceedToNextScrape called by an extraction
DequeueStep(t, i) ==
    /\ scr[t][i].pc = "p_set" /\ scr[t][i].hold
    /\ scr'[t][i].pc = "idle"

\* the employer number of the record an extraction is about to save
Extracted(t, i) == scr[t][i].res[Len(scr[t][i].res)].er

\* C33: while the user edits nothing, an invocation that performs the search
\* writes no record and no queue and ends without extracting; an extraction
\* saves the stored list with exactly one record more, for a number the
\* results table shows, and then takes exactly one number, that one, off the
\* queue.
C33_SearchThenExtract ==
    [][hist.userOps = 0 =>
        \A t \in Tabs, i \in Slots :
            /\ SearchStep(t, i)
               => /\ store' = store
                  /\ scr'[t][i].pc \in {"search_wait", "idle"}
            /\ AppendStep(t, i)
               => /\ Len(store'.scrapedResults) = Len(store.scrapedResults) + 1
                  /\ SubSeq(store'.scrapedResults, 1, Len(store.scrapedResults))
                        = store.scrapedResults
                  /\ page[t].table.er = Extracted(t, i)
            /\ DequeueStep(t, i)
               => /\ store.erQueue # <<>>
                  /\ store'.erQueue = Tail(store.erQueue)
                  /\ HasER(store.scrapedResults, store.erQueue[1])]_vars

(***************************************************************************)
(* The scraping loop left to itself: the popup has stored the batch and    *)
(* opened the report page in tab 1; nobody pauses, no login page appears,  *)
(* the form is ready and the report answers every search, with rows or     *)
(* with none.                                                              *)
(***************************************************************************)
ScrapeLiveInit ==
    /\ store = [InitStore EXCEPT
                    !.phase = "SCRAPING",
                    !.automationTabId = ScrapeTab,
                    !.erQueue = FullBatch,
                    !.currentER = FullBatch[1]]
    /\ mem = [t \in Tabs |->
                IF t = ScrapeTab THEN [InitMem EXCEPT !.loaded = FALSE] ELSE InitMem]
    /\ page = [t \in Tabs |->
                IF t = ScrapeTab THEN [InitPage EXCEPT !.url = "report"] ELSE InitPage]
    /\ scr = [t \in Tabs |-> [i \in Slots |-> IdleSlot]]
    /\ cap = [t \in Tabs |-> IdleCap]
    /\ uop = [t \in Tabs |-> IdleOp]
    /\ now = 1
    /\ hist = [InitHist EXCEPT !.runs[ScrapeTab] = 1, !.batch = Range(FullBatch)]

\* the interval timer fires
ScrapeLiveTick == \E i \in Slots : runScrapingLoop(ScrapeTab, i)

\* the continuations of invocation i of the callback
ScrapeLiveStep(i) ==
    \/ runScrapingLoopChecks(ScrapeTab, i)
    \/ doScrapingStep(ScrapeTab, i, TRUE)
    \/ doScrapingStepComplete(ScrapeTab, i)
    \/ clearAndSearchER(ScrapeTab, i, TRUE)
    \/ clearAndSearchERFinally(ScrapeTab, i)
    \/ extractDataFromTable(ScrapeTab, i)
    \/ extractDataFromTableSave(ScrapeTab, i)
    \/ proceedToNextScrape(ScrapeTab, i)
    \/ proceedToNextScrapeSave(ScrapeTab, i)

\* the report answers a search
ScrapeLiveAnswer == \E rows \in RowSets \cup {<<>>} : SearchResults(ScrapeTab, rows)

ScrapeLiveNext ==
    \/ runAutomation(ScrapeTab)
    \/ ScrapeLiveTick
    \/ \E i \in Slots : ScrapeLiveStep(i)
    \/ ScrapeLiveAnswer

\* the document loads, the timer keeps firing, every pending continuation
\* runs, every search is answered
SpecScrapeLive ==
    /\ ScrapeLiveInit /\ [][ScrapeLiveNext]_vars
    /\ WF_vars(runAutomation(ScrapeTab))
    /\ WF_vars(ScrapeLiveTick)
    /\ \A i \in Slots : WF_vars(ScrapeLiveStep(i))
    /\ WF_vars(ScrapeLiveAnswer)

\* C34: under fair ticking, with no pause and no login page, the scraping
\* loop eventually has taken every number off the queue and set the phase
\* to the capture-ready state, whatever the report answers.
C34_ScrapingCompletes ==
    <>(store.phase = "IDLE" /\ store.erQueue = <<>>)

(***************************************************************************)
(* The validation loop left to itself: the phase is VALIDATION with the    *)
(* batch queued and nobody clicks; the list may fail to show a report, a   *)
(* control the loop looks for may be missing, the imported table may hold  *)
(* a contribution below the minimum, and a submission is answered by a     *)
(* dialog or by nothing.                                                   *)
(***************************************************************************)
\* what the script does on its own (with nobody clicking, no step finds an
\* item already processed or a sub-state to reset on the list)
ValidationLiveTick ==
    \/ runAutomation(ScrapeTab)
    \/ runValidationLoop(ScrapeTab)
    \/ \E in \in ValidationStepInputs(ScrapeTab), employees \in ImportedTables :
          doValidationStep(ScrapeTab, in.found, in.controls, employees)
    \/ doValidationStepIntervention(ScrapeTab)
    \/ doValidationStepComplete(ScrapeTab)
    \/ doValidationStepImported(ScrapeTab)
    \/ doValidationStepQueue(ScrapeTab)
    \/ doValidationStepSearched(ScrapeTab)
    \/ doValidationStepAllStuck(ScrapeTab)
    \/ doValidationStepCtb(ScrapeTab)
    \/ doValidationStepCtbSave(ScrapeTab)
    \/ doValidationStepCtbQueue(ScrapeTab)
    \/ \E found \in BOOLEAN, controls \in BOOLEAN :
          doValidationStepChecked(ScrapeTab, found, controls)
    \/ doValidationStepSubmit(ScrapeTab)
    \/ advanceValidation(ScrapeTab)
    \/ advanceValidationSave(ScrapeTab)
    \/ doValidationStepNavigate(ScrapeTab)

ValidationLiveNext ==
    \/ ValidationLiveTick
    \/ \E d \in ValidationDialogs : ValidationDialogAppears(ScrapeTab, d)
    \/ ValidationTimeout

\* the script's steps are taken, and time passes beyond a pending timeout
SpecValidationLive ==
    /\ ValidationInit /\ [][ValidationLiveNext]_vars
    /\ WF_vars(ValidationLiveTick)
    /\ SF_vars(ValidationTimeout)

\* C35: under fair ticking and with no pause, the validation phase
\* eventually leaves the working state: the phase becomes COMPLETE or
\* WAGE_EDIT, or an intervention is asked for.
C35_ValidationLeaves ==
    <>(store.phase \in {"COMPLETE", "WAGE_EDIT"} \/ store.interventionRequired)

\* the step of a validation tick that finds a consent dialog on its page
ConsentTick(t) ==
    /\ cap[t].pc = "v_get" /\ cap'[t].pc # "v_get"
    /\ store.phase = "VALIDATION"
    /\ page[t].dialog = "consent"

\* C36: in validation, a tick that observes a consent dialog clicks its
\* affirmative control (the dialog goes, or stays when the control is not
\* found) and ends: the store is left as it is, no queue, index, item or
\* result list changes, and the tab stays on its page.
C36_ConsentTick ==
    [][\A t \in Tabs :
        ConsentTick(t)
        => /\ store' = store
           /\ cap'[t].pc = "idle"
           /\ ~mem'[t].validationInProgress
           /\ page'[t].dialog \in {"none", "consent"}
           /\ page'[t].url = page[t].url
           /\ page'[t].submitted = page[t].submitted]_vars

\* a tick has read the store while the consent dialog that answers the
\* submission of the current report is on its page
C36_Witness ==
    \E t \in Tabs :
        /\ cap[t].pc = "v_get"
        /\ store.phase = "VALIDATION"
        /\ store.validationState = "submitted_awaiting"
        /\ page[t].dialog = "consent" /\ page[t].submitted

(***************************************************************************)
(* Pause and resume of a running loop.  The capture phase runs in the      *)
(* automation tab; the user may press the pause button, and may reload the *)
(* tab while the automation is paused.  The script's steps are taken       *)
(* whenever they stay enabled.                                             *)
(***************************************************************************)
\* the user reloads tab t while the automation is paused
ReloadPaused(t) == store.isPaused /\ Reload(t)

ResumeNext ==
    \/ CaptureLiveNext
    \/ togglePause(ScrapeTab)
    \/ ReloadPaused(ScrapeTab)

SpecResume ==
    /\ CaptureLiveInit /\ [][ResumeNext]_vars
    /\ WF_vars(CaptureLiveTick)
    /\ SF_vars(ResponseTimeout)

\* the automation was paused and resumed, and the capture phase is active
Resumed ==
    /\ hist.clicks >= 2 /\ ~store.isPaused
    /\ store.phase = "CAPTURE"

\* C37: after a pause followed by a resume in an active phase, a step of
\* the phase's loop is eventually executed (or the phase is over), also
\* when the tab was reloaded while paused.
C37_ResumeTicks ==
    Resumed ~> (cap[ScrapeTab].pc # "idle" \/ store.phase # "CAPTURE")

(***************************************************************************)
(* Submissions of one capture item.  The capture phase runs in the         *)
(* automation tab; the remote page answers with any dialog or not at all,  *)
(* the user pauses and resumes, and reloads the tab at any moment, also in *)
(* the middle of a step.                                                   *)
(***************************************************************************)
\* the user reloads tab t, whatever the script is doing
ReloadAnytime(t) ==
    /\ mem[t].loaded
    /\ store.phase = "CAPTURE"
    /\ Navigate(t, page[t].url)
    /\ UNCHANGED <<store, now, hist>>

SubmitNext ==
    \/ CaptureLiveTick
    \/ \E submitEnabled \in BOOLEAN : doCaptureStepFill(ScrapeTab, submitEnabled)
    \/ \E d \in Dialogs : DialogAppears(ScrapeTab, d)
    \/ ResponseTimeout
    \/ togglePause(ScrapeTab)
    \/ ReloadAnytime(ScrapeTab)

SpecSubmit == CaptureLiveInit /\ [][SubmitNext]_vars

\* C38: the submit button is clicked at most twice for each item of the
\* capture queue (the submission and one retry), whatever the ticks, the
\* pauses, the resumes and the reloads.
C38_AtMostTwoSubmits == \A e \in ERs : hist.submits[e] <= 2

\* an item failed for its second timeout after two clicks of submit
C38_Witness ==
    \E e \in ERs :
        /\ hist.submits[e] = 2
        /\ e \in Range(store.failedErs)
        /\ hist.clicks >= 2

\* C39: throughout the capture phase capturedErs and failedErs are
\* disjoint, hold only employers of the queue's items below
\* currentCaptureIndex, and together count currentCaptureIndex items, which
\* is at most the length of the queue; a skip of the user in the middle of a
\* tick included.
C39_CaptureLists ==
    store.phase = "CAPTURE"
    => LET queue == store.captureQueue
           index == store.currentCaptureIndex
           done  == Range(store.capturedErs) \cup Range(store.failedErs)
       IN  /\ Range(store.capturedErs) \cap Range(store.failedErs) = {}
           /\ \A e \in done : \E k \in 1..index : k <= Len(queue) /\ queue[k].er = e
           /\ Len(store.capturedErs) + Len(store.failedErs) = index
           /\ index <= Len(queue)

\* a skip of the user has been recorded while a tick that read the store
\* before it still holds its own write for the same phase
C39_Witness ==
    /\ store.phase = "CAPTURE"
    /\ store.currentCaptureIndex = 1
    /\ \E e \in ERs :
          /\ store.failedErs = <<e>>
          /\ store.captureResults[e].result = "skipped"
    /\ cap[ScrapeTab].pc = "adv_set"
    /\ cap[ScrapeTab].adv.index = 1

\* the safeSet that ends a manual add, an edit or a delete of tab t
UserListWrite(t) ==
    /\ uop[t].pc = "set" /\ uop[t].op \in {"add", "edit", "delete"}
    /\ uop'[t].pc = "idle"

\* the stored list changes for one employer number at most
OneRecordChanged ==
    \E e \in ErsOf(store.scrapedResults) \cup ErsOf(store'.scrapedResults) \cup {Null} :
        {r \in Range(store.scrapedResults) : r.er # e}
            = {r \in Range(store'.scrapedResults) : r.er # e}

\* C40: no update of scrapedResults is lost: the write of an extraction and
\* the write of a manual add, edit or delete each change the stored list for
\* their own employer number only, so that after both the list holds the
\* user's change and the extracted record.
C40_NoLostUpdate ==
    [][\A t \in Tabs :
          /\ UserListWrite(t) => OneRecordChanged
          /\ \A i \in Slots : AppendStep(t, i) => OneRecordChanged]_vars

(***************************************************************************)
(* The scenario of a batch with one employer without data of the preceding *)
(* period.  The scraping of the batch has finished: the report answered    *)
(* with a NORMAL row of the preceding period for each employer of ERs and  *)
(* with no such row for one more employer, and extractDataFromTable built  *)
(* one record from each answer, in the order of the batch.  The user       *)
(* starts the capture; the page shows its controls and answers every       *)
(* submission in time with a dialog that is classified as a success.       *)
(***************************************************************************)
\* the employer without data of the preceding period
NoDataER == NumERs + 2

\* what the report can show for it: rows of the period before only, or none
NoDataAnswers == {<<Row("P2", "NORMAL", 1, 1, FALSE)>>, <<>>}

\* the batch: the employers of ERs and NoDataER
ScenarioERs == ERs \cup {NoDataER}

\* the lists of records the scraping of the batch leaves, in any order
ScenarioLists ==
    {recs \in [1..Cardinality(ScenarioERs) ->
                    {ExtractRecord(er, CleanRows) : er \in ERs}
                    \cup {ExtractRecord(NoDataER, rows) : rows \in NoDataAnswers}] :
        ErsOf(recs) = ScenarioERs}

ScenarioInit ==
    /\ \E recs \in ScenarioLists :
          store = [InitStore EXCEPT !.automationTabId = ScrapeTab,
                                    !.scrapedResults = recs]
    /\ mem = [t \in Tabs |->
                IF t = ScrapeTab THEN [InitMem EXCEPT !.dashboard = TRUE] ELSE InitMem]
    /\ page = [t \in Tabs |->
                IF t = ScrapeTab THEN [InitPage EXCEPT !.url = "report"] ELSE InitPage]
    /\ scr = [t \in Tabs |-> [i \in Slots |-> IdleSlot]]
    /\ cap = [t \in Tabs |-> IdleCap]
    /\ uop = [t \in Tabs |-> IdleOp]
    /\ now = 1
    /\ hist = [InitHist EXCEPT !.scrapeDone = TRUE]

\* the user's start of the capture, from the dashboard of the finished
\* scraping (the button is shown while the phase is not CAPTURE or COMPLETE)
ScenarioStart ==
    \/ IdleStartCapture(ScrapeTab)
    \/ startCapturePhaseSave(ScrapeTab)

\* the steps of the script: the capture loop on a page that shows its
\* controls (no dialog of unknown type appears, so no intervention is asked)
ScenarioTick ==
    \/ runAutomation(ScrapeTab)
    \/ handleCapturePhase(ScrapeTab)
    \/ doCaptureStep(ScrapeTab, TRUE, TRUE)
    \/ doCaptureStepEmployer(ScrapeTab, TRUE)
    \/ doCaptureStepFill(ScrapeTab, TRUE)
    \/ doCaptureStepSubmit(ScrapeTab)
    \/ advanceToNextER(ScrapeTab)
    \/ advanceToNextERSave(ScrapeTab)
    \/ advanceToNextERNavigate(ScrapeTab)

\* the portal's answer to a submission
ScenarioAnswer == \E d \in {"receipt", "success"} : DialogAppears(ScrapeTab, d)

ScenarioNext == ScenarioStart \/ ScenarioTick \/ ScenarioAnswer

SpecScenario ==
    /\ ScenarioInit /\ [][ScenarioNext]_vars
    /\ WF_vars(ScenarioStart)
    /\ WF_vars(ScenarioTick)
    /\ WF_vars(ScenarioAnswer)

\* the record of NoDataER is flagged and the capture queue, once written,
\* holds the other employers of the batch and not NoDataER
ScenarioQueue ==
    /\ \A k \in DOMAIN store.scrapedResults :
          store.scrapedResults[k].continuityError
              <=> store.scrapedResults[k].er = NoDataER
    /\ store.phase \in {"CAPTURE", "COMPLETE"}
       => /\ {store.captureQueue[k].er : k \in DOMAIN store.captureQueue} = ERs
          /\ Len(store.captureQueue) = NumERs

\* the capture is over with every employer of the queue captured
ScenarioComplete ==
    /\ store.phase = "COMPLETE"
    /\ Len(store.capturedErs) = NumERs
    /\ Range(store.capturedErs) = ERs
    /\ store.failedErs = <<>>

\* C31: for a batch of NumERs + 1 employers (three) of which one has no data
\* of the preceding period, that employer's record is flagged continuityError
\* and left out of the capture queue, the others (two) enter the queue, and
\* with a success classification for each of them the phase reaches COMPLETE
\* with all of them (two) captured and none failed.
C31_Scenario == [](ScenarioQueue) /\ <>[](ScenarioComplete)

\* the end of the scenario: the flagged record is stored, the queue holds
\* the others and the capture is complete
C31_Witness ==
    /\ ScenarioComplete
    /\ \E k \in DOMAIN store.scrapedResults :
          /\ store.scrapedResults[k].er = NoDataER
          /\ store.scrapedResults[k].continuityError
    /\ NoDataER \notin {store.captureQueue[k].er : k \in DOMAIN store.captureQueue}

====
